---- MODULE Spec2Model ----
(***************************************************************************)
(* A state-machine model of the bitsy modal editing engine                 *)
(* (src/src/editor.rs) and of the components it drives: the text buffer    *)
(* (src/src/buffer.rs), the register bank (src/src/register.rs), the       *)
(* ex-command parser (src/src/command.rs), the key mapper                  *)
(* (src/src/keymap.rs) and the cursor (src/src/cursor.rs).                 *)
(*                                                                         *)
(* Text is a sequence of one-character strings.  Every character of the    *)
(* model is a single-byte (ASCII) character except WIDE, which takes two   *)
(* bytes in UTF-8, so that the byte length Rust reports for a String can   *)
(* differ from its number of characters.  A key event is a string: a       *)
(* one-character string for KeyCode::Char(c) without modifiers, or one of  *)
(* "Esc", "Enter", "Backspace".                                            *)
(*                                                                         *)
(* Editor operations are operators from an editor state (a record of the   *)
(* fields of Editor, Buffer, Cursor and RegisterManager) to the state      *)
(* they leave behind, so that macro playback can re-enter the key handler  *)
(* exactly as the code does.                                               *)
(***************************************************************************)
EXTENDS Integers, Sequences, FiniteSets, TLC

VARIABLES
    \* Buffer (src/src/buffer.rs)
    rope, file_path, backup_path, modified, line_ending, marks,
    \* the backup file, the target file's reaction to a write and the
    \* characters the target file holds
    backup, fs_ok, file,
    \* Window.cursor
    cursor,
    \* RegisterManager (src/src/register.rs)
    registers,
    \* Editor (src/src/editor.rs)
    mode, command_buffer, message, should_quit, pending_operator, pending_key,
    count, last_change, pending_text_object, pending_register,
    waiting_for_register, waiting_for_mark, change_list, change_index,
    jump_list, jump_index, selection,
    recording_register, macro_buffer, last_macro_register,
    search_buffer, search_pattern, search_forward,
    \* outcome of the last handle_key call, and whether the process is alive
    result, panicked,
    \* the build: TRUE when arithmetic overflow panics (debug profile), FALSE
    \* when it wraps (release profile)
    overflow_checks,
    \* history of the run: the keys fed to run() so far, and the buffer and
    \* cursor the run started from
    typed, rope0, cursor0

vars == << rope, file_path, backup_path, modified, line_ending, marks, backup,
           fs_ok, file, cursor,
           registers, mode, command_buffer, message, should_quit,
           pending_operator, pending_key, count, last_change,
           pending_text_object, pending_register, waiting_for_register,
           waiting_for_mark, change_list, change_index, jump_list, jump_index,
           selection, recording_register, macro_buffer, last_macro_register,
           search_buffer, search_pattern, search_forward, result, panicked,
           overflow_checks, typed, rope0, cursor0 >>

-----------------------------------------------------------------------------
(* Bounds of the model *)

\* longest rope the buffer-level specification grows
MaxRope == 4
\* largest line / column argument handed to a Buffer operation
MaxCoord == 3
\* keys typed in one run of the key-driven specifications
MaxKeys == 4
\* the largest count a run may type
MaxCount == 9
\* nesting depth of macro playback after which the call stack is exhausted
MaxMacroDepth == 3

\* stands for usize::MAX: usize is modelled 30 bits wide, so that
\* USIZE_MAX + 1 stays within 32-bit integers
USIZE_MAX == 1073741823

-----------------------------------------------------------------------------
(* Option<T>: None is the empty sequence, Some(x) the one-element sequence *)

None == << >>
Some(x) == << x >>
IsSome(o) == o # << >>
Unwrap(o) == o[1]

\* a boolean as text, for the history of a run
Answer(b) == IF b THEN "true" ELSE "false"

Min(a, b) == IF a <= b THEN a ELSE b
Max(a, b) == IF a >= b THEN a ELSE b
\* usize::saturating_sub
saturating_sub(a, b) == IF a >= b THEN a - b ELSE 0

\* s[a..b] on zero-based, half-open character indices
Slice(s, a, b) == SubSeq(s, a + 1, b)

-----------------------------------------------------------------------------
(* Characters *)

LowerLetters == {"a","b","c","d","e","f","g","h","i","j","k","l","m",
                 "n","o","p","q","r","s","t","u","v","w","x","y","z"}
UpperLetters == {"A","B","C","D","E","F","G","H","I","J","K","L","M",
                 "N","O","P","Q","R","S","T","U","V","W","X","Y","Z"}
Digits == {"0","1","2","3","4","5","6","7","8","9"}
\* the backquote character (written out, as a string cannot hold it)
BACKQUOTE == "<backquote>"
\* a character whose UTF-8 encoding takes two bytes, such as e-acute
WIDE == "<e-acute>"
Punctuation == {" ", "\n", "\"", "'", BACKQUOTE, "@", ".", ":", ",", "/", "%", "!", "_", WIDE}
Chars == LowerLetters \cup UpperLetters \cup Digits \cup Punctuation

NamedKeys == {"Esc", "Enter", "Backspace"}
IsCharKey(key) == key \notin NamedKeys

is_whitespace(ch) == ch \in {" ", "\n", "\t"}
is_ascii_digit(ch) == ch \in Digits
to_digit(ch) ==
    CASE ch = "0" -> 0 [] ch = "1" -> 1 [] ch = "2" -> 2 [] ch = "3" -> 3
      [] ch = "4" -> 4 [] ch = "5" -> 5 [] ch = "6" -> 6 [] ch = "7" -> 7
      [] ch = "8" -> 8 [] ch = "9" -> 9

\* char::len_utf8 for the characters used here
len_utf8(ch) == IF ch = WIDE THEN 2 ELSE 1

\* str::len: the length in bytes
RECURSIVE str_len(_)
str_len(text) == IF text = << >> THEN 0 ELSE len_utf8(Head(text)) + str_len(Tail(text))

\* str::is_char_boundary, and the number of characters before a boundary
is_char_boundary(text, index) ==
    \E k \in 0..Len(text) : str_len(SubSeq(text, 1, k)) = index
char_index(text, index) ==
    CHOOSE k \in 0..Len(text) : str_len(SubSeq(text, 1, k)) = index

\* &text[a..b] indexes by byte: it panics unless a <= b and both are
\* character boundaries of text
byte_slice_ok(text, a, b) ==
    a <= b /\ is_char_boundary(text, a) /\ is_char_boundary(text, b)
byte_slice(text, a, b) == Slice(text, char_index(text, a), char_index(text, b))

-----------------------------------------------------------------------------
(* ropey::Rope, as far as Buffer uses it; its indices count characters *)

NewlinePositions(r) == {i \in 1..Len(r) : r[i] = "\n"}

\* Rope::len_lines: one more than the number of line breaks
len_lines(r) == Cardinality(NewlinePositions(r)) + 1

\* Rope::line_to_char, defined for line <= len_lines(r); the one-past-the-end
\* line starts at len_chars
line_to_char(r, line) ==
    IF line = 0 THEN 0
    ELSE IF line < len_lines(r)
         THEN CHOOSE i \in NewlinePositions(r) :
                  Cardinality({j \in NewlinePositions(r) : j < i}) = line - 1
         ELSE Len(r)

\* Rope::insert_char, which panics when pos > len_chars
rope_insert(r, pos, ch) == Slice(r, 0, pos) \o << ch >> \o Slice(r, pos, Len(r))

\* Rope::remove(a..b), which panics when b > len_chars
rope_remove(r, a, b) == Slice(r, 0, a) \o Slice(r, b, Len(r))

RECURSIVE trim_end_newlines(_)
trim_end_newlines(t) ==
    IF t # << >> /\ t[Len(t)] = "\n"
    THEN trim_end_newlines(SubSeq(t, 1, Len(t) - 1))
    ELSE t

-----------------------------------------------------------------------------
(* HashMap<char, V> as a set of <<key, value>> pairs with one pair per key *)

map_insert(m, k, v) == {p \in m : p[1] # k} \cup {<< k, v >>}
map_get(m, k) ==
    IF \E p \in m : p[1] = k THEN Some((CHOOSE p \in m : p[1] = k)[2]) ELSE None

-----------------------------------------------------------------------------
(* Buffer (src/src/buffer.rs).  s is the editor state; the Buffer fields   *)
(* are s.rope, s.file_path, s.backup_path, s.modified and s.marks.         *)

line_count_alt(s) == Cardinality(NewlinePositions(s.rope))
line_count(s) == len_lines(s.rope)

get_line(s, line) ==
    IF line < line_count(s)
    THEN Some(trim_end_newlines(Slice(s.rope, line_to_char(s.rope, line),
                                      line_to_char(s.rope, line + 1))))
    ELSE None

line_len(s, line) ==
    IF line < line_count(s)
    THEN str_len(trim_end_newlines(Slice(s.rope, line_to_char(s.rope, line),
                                         line_to_char(s.rope, line + 1))))
    ELSE 0

\* LineEnding::default off Windows
LineEnding_default == "LF"

\* str::contains for a pattern of one or two characters
str_contains(content, pat) ==
    \E i \in 1..(Len(content) - Len(pat) + 1) :
        SubSeq(content, i, i + Len(pat) - 1) = pat

\* str::replace: every non-overlapping match of from, found left to right,
\* becomes to
RECURSIVE replace(_, _, _)
replace(content, from, to) ==
    IF Len(content) < Len(from) THEN content
    ELSE IF SubSeq(content, 1, Len(from)) = from
         THEN to \o replace(SubSeq(content, Len(from) + 1, Len(content)), from, to)
         ELSE << content[1] >> \o replace(Tail(content), from, to)

\* a line-ending detection that looks for a lone carriage return first
detect_cr_first(content) ==
    IF str_contains(content, << "\r" >>) THEN "CR"
    ELSE IF str_contains(content, << "\r", "\n" >>) THEN "CRLF"
    ELSE "LF"

\* LineEnding::detect
detect(content) ==
    IF str_contains(content, << "\r", "\n" >>) THEN "CRLF"
    ELSE IF str_contains(content, << "\r" >>) THEN "CR"
    ELSE "LF"

\* the normalisation of Buffer::from_file: CRLF, then every remaining CR,
\* becomes LF
normalized(decoded_content) ==
    replace(replace(decoded_content, << "\r", "\n" >>, << "\n" >>),
            << "\r" >>, << "\n" >>)

\* the conversion of Buffer::save back to the line ending of the file
content_with_endings(content, ending) ==
    CASE ending = "LF" -> content
      [] ending = "CRLF" -> replace(content, << "\n" >>, << "\r", "\n" >>)
      [] ending = "CR" -> replace(content, << "\n" >>, << "\r" >>)

\* Buffer::create_backup: the rope, with the line ending of the file, is
\* written to the backup file
create_backup(s) ==
    IF s.backup_path
    THEN [s EXCEPT !.backup = Some(content_with_endings(s.rope, s.line_ending))]
    ELSE s

\* a set_modified that writes the backup file at every modification
set_modified_always_backing_up(s, is_modified) ==
    [(IF is_modified THEN create_backup(s) ELSE s) EXCEPT !.modified = is_modified]

\* the first modification of a file-backed buffer writes the backup file
set_modified(s, is_modified) ==
    [(IF is_modified /\ ~s.modified THEN create_backup(s) ELSE s)
        EXCEPT !.modified = is_modified]

remove_backup(s) == [s EXCEPT !.backup = IF s.backup_path THEN None ELSE @]

set_mark(s, mark, pos) == [s EXCEPT !.marks = map_insert(@, mark, pos)]
get_mark(s, mark) == map_get(s.marks, mark)

insert_char(s, line, col, ch) ==
    IF s.panicked THEN s
    ELSE IF line < line_count(s)
    THEN LET insert_pos == line_to_char(s.rope, line) + Min(col, line_len(s, line))
         IN  IF insert_pos > Len(s.rope) THEN [s EXCEPT !.panicked = TRUE]
             ELSE set_modified([s EXCEPT !.rope = rope_insert(@, insert_pos, ch)], TRUE)
    ELSE s

insert_newline(s, line, col) ==
    IF s.panicked THEN s
    ELSE IF line < line_count(s)
    THEN LET insert_pos == line_to_char(s.rope, line) + Min(col, line_len(s, line))
         IN  IF insert_pos > Len(s.rope) THEN [s EXCEPT !.panicked = TRUE]
             ELSE set_modified([s EXCEPT !.rope = rope_insert(@, insert_pos, "\n")], TRUE)
    ELSE s

delete_char(s, line, col) ==
    IF s.panicked THEN s
    ELSE IF line < line_count(s) /\ col < line_len(s, line)
    THEN LET delete_pos == line_to_char(s.rope, line) + col
         IN  IF delete_pos + 1 > Len(s.rope) THEN [s EXCEPT !.panicked = TRUE]
             ELSE set_modified([s EXCEPT !.rope = rope_remove(@, delete_pos, delete_pos + 1)],
                               TRUE)
    ELSE s

\* line_to_char panics on a line index beyond len_lines
delete_range(s, start_line, start_col, end_line, end_col) ==
    IF s.panicked THEN s
    ELSE IF start_line > len_lines(s.rope)
            \/ (end_col # USIZE_MAX /\ end_line > len_lines(s.rope))
    THEN [s EXCEPT !.panicked = TRUE]
    ELSE LET start_char == line_to_char(s.rope, start_line) + start_col
             end_char ==
                 IF end_col = USIZE_MAX
                 THEN IF end_line + 1 < len_lines(s.rope)
                      THEN line_to_char(s.rope, end_line + 1)
                      ELSE Len(s.rope)
                 ELSE line_to_char(s.rope, end_line) + end_col
         IN  IF start_char <= end_char /\ end_char <= Len(s.rope)
             THEN set_modified([s EXCEPT !.rope = rope_remove(@, start_char, end_char)], TRUE)
             ELSE s

-----------------------------------------------------------------------------
(* RegisterManager (src/src/register.rs).  A RegisterContent is a record   *)
(* [kind, val]: Char(text), Line(lines) or Macro(keys).  s.registers is    *)
(* [registers, unnamed, last_yank, last_delete, last_command].             *)

CharContent(text) == [kind |-> "Char", val |-> text]
LineContent(lines) == [kind |-> "Line", val |-> lines]
MacroContent(keys) == [kind |-> "Macro", val |-> keys]

RegisterManager_new ==
    [registers |-> {}, unnamed |-> CharContent(<< >>),
     last_yank |-> CharContent(<< >>), last_delete |-> CharContent(<< >>),
     last_command |-> << >>]

\* register is an Option<char>; the clipboard registers + and * leave the
\* bank itself untouched apart from the unnamed register
registers_set(regs, register, content) ==
    IF register = Some("_") THEN regs
    ELSE IF IsSome(register) /\ Unwrap(register) \in {"%", "#", ":", "."} THEN regs
    ELSE IF IsSome(register) /\ Unwrap(register) \notin {"+", "*"}
         THEN [regs EXCEPT !.unnamed = content,
                           !.registers = map_insert(@, Unwrap(register), content)]
         ELSE [regs EXCEPT !.unnamed = content]

\* a yank that adds to register 0 instead of replacing it
set_yank_appending(regs, register, content) ==
    registers_set([regs EXCEPT !.last_yank = [kind |-> content.kind,
                                             val |-> @.val \o content.val]],
                  register, content)

set_yank(regs, register, content) ==
    registers_set([regs EXCEPT !.last_yank = content], register, content)

set_delete(regs, register, content) ==
    registers_set([regs EXCEPT !.last_delete = content], register, content)

\* the filename (%) and last-inserted (.) registers hold the empty string in
\* a session that opened no file and the clipboard (+, *) is unreachable
registers_get(regs, register) ==
    IF register = None THEN Some(regs.unnamed)
    ELSE IF Unwrap(register) = "0" THEN Some(regs.last_yank)
    ELSE IF Unwrap(register) = "\"" THEN Some(regs.unnamed)
    ELSE IF Unwrap(register) = "_" THEN None
    ELSE IF Unwrap(register) = "%" THEN Some(CharContent(<< >>))
    ELSE IF Unwrap(register) = ":" THEN Some(CharContent(regs.last_command))
    ELSE IF Unwrap(register) = "." THEN Some(CharContent(<< >>))
    ELSE IF Unwrap(register) \in LowerLetters \cup UpperLetters
         THEN map_get(regs.registers, Unwrap(register))
    ELSE None

update_last_command(regs, cmd) == [regs EXCEPT !.last_command = cmd]

-----------------------------------------------------------------------------
(* String helpers over sequences of characters *)

starts_with(s, prefix) ==
    Len(s) >= Len(prefix) /\ SubSeq(s, 1, Len(prefix)) = prefix

\* str::find for a predicate given as a set of characters: the zero-based
\* index of the first character in the set, or None
find_in(s, set) ==
    IF \E i \in 1..Len(s) : s[i] \in set
    THEN Some((CHOOSE i \in 1..Len(s) :
                  s[i] \in set /\ \A j \in 1..(i - 1) : s[j] \notin set) - 1)
    ELSE None

RECURSIVE trim_start(_)
trim_start(s) == IF s # << >> /\ is_whitespace(s[1]) THEN trim_start(Tail(s)) ELSE s
RECURSIVE trim_end(_)
trim_end(s) ==
    IF s # << >> /\ is_whitespace(s[Len(s)])
    THEN trim_end(SubSeq(s, 1, Len(s) - 1)) ELSE s
trim(s) == trim_end(trim_start(s))

RECURSIVE digits_value(_)
digits_value(s) ==
    IF s = << >> THEN 0 ELSE 10 * digits_value(SubSeq(s, 1, Len(s) - 1)) + to_digit(s[Len(s)])

\* str::parse::<usize>: Some(n) for a non-empty run of decimal digits
parse_usize(s) ==
    IF s # << >> /\ \A i \in 1..Len(s) : is_ascii_digit(s[i])
    THEN Some(digits_value(s)) ELSE None

\* str::split(sep): the pieces between separators, at least one piece
RECURSIVE split(_, _)
split(s, sep) ==
    LET at == find_in(s, {sep})
    IN  IF at = None THEN << s >>
        ELSE << Slice(s, 0, Unwrap(at)) >> \o split(Slice(s, Unwrap(at) + 1, Len(s)), sep)

contains_char(s, ch) == \E i \in 1..Len(s) : s[i] = ch

-----------------------------------------------------------------------------
(* Ex-command parser (src/src/command.rs).  A parse result is              *)
(* [ok |-> TRUE, cmd |-> Command] or [ok |-> FALSE, err |-> text].         *)

Ok(cmd) == [ok |-> TRUE, cmd |-> cmd]
Err(text) == [ok |-> FALSE, err |-> text]
Range(start, end) == [start |-> start, end |-> end]

\* str::find(|c| !c.is_ascii_digit())
find_non_digit(s) ==
    IF \E i \in 1..Len(s) : ~is_ascii_digit(s[i])
    THEN Some((CHOOSE i \in 1..Len(s) :
                  ~is_ascii_digit(s[i]) /\ \A j \in 1..(i - 1) : is_ascii_digit(s[j])) - 1)
    ELSE None

\* returns << Option<Range>, rest of the input >>
parse_range(input) ==
    LET comma_pos == find_in(input, {","})
        before_comma == Slice(input, 0, Unwrap(comma_pos))
        after_comma == Slice(input, Unwrap(comma_pos) + 1, Len(input))
        cmd_start == find_non_digit(after_comma)
        end_str == Slice(after_comma, 0, Unwrap(cmd_start))
        first_non_digit == find_non_digit(input)
        line_str == Slice(input, 0, Unwrap(first_non_digit))
    IN  IF starts_with(input, << "%" >>)
        THEN << Some(Range(1, USIZE_MAX)), Slice(input, 1, Len(input)) >>
        ELSE IF IsSome(comma_pos) /\ IsSome(cmd_start)
                /\ IsSome(parse_usize(before_comma)) /\ IsSome(parse_usize(end_str))
        THEN << Some(Range(Unwrap(parse_usize(before_comma)), Unwrap(parse_usize(end_str)))),
                Slice(after_comma, Unwrap(cmd_start), Len(after_comma)) >>
        ELSE IF IsSome(first_non_digit) /\ IsSome(parse_usize(line_str))
        THEN << Some(Range(Unwrap(parse_usize(line_str)), Unwrap(parse_usize(line_str)))),
                Slice(input, Unwrap(first_non_digit), Len(input)) >>
        ELSE << None, input >>

parse_substitute(input0, range) ==
    LET input == IF starts_with(input0, << "s", "/" >>)
                 THEN Slice(input0, 2, Len(input0)) ELSE input0
        parts == split(input, "/")
        flags == IF Len(parts) > 2 THEN parts[3] ELSE << >>
    IN  IF Len(parts) < 2 THEN Err("Invalid substitute syntax")
        ELSE Ok([kind |-> "Substitute", pattern |-> parts[1], replacement |-> parts[2],
                 global |-> contains_char(flags, "g"), range |-> range])

\* the match on the command word.  Edit, Set, Help and the buffer and window
\* stubs carry no argument here: executing them needs the file system or
\* the configuration
match_command(range, command) ==
    IF command \in {<< "w" >>, << "w","r","i","t","e" >>} THEN Ok([kind |-> "Write"])
    ELSE IF command \in {<< "q" >>, << "q","u","i","t" >>} THEN Ok([kind |-> "Quit"])
    ELSE IF command \in {<< "w","q" >>, << "x" >>} THEN Ok([kind |-> "WriteQuit"])
    ELSE IF command = << "q","!" >> THEN Ok([kind |-> "ForceQuit"])
    ELSE IF command \in {<< "d" >>, << "d","e","l","e","t","e" >>}
         THEN Ok([kind |-> "Delete", range |-> range])
    ELSE IF starts_with(command, << "s", "/" >>) THEN parse_substitute(command, range)
    ELSE IF IsSome(parse_usize(command))
         THEN Ok([kind |-> "GoToLine", line_num |-> Unwrap(parse_usize(command))])
    ELSE IF starts_with(command, << "e", " " >>)
            \/ starts_with(command, << "e","d","i","t"," " >>) THEN Ok([kind |-> "Edit"])
    ELSE IF starts_with(command, << "s","e","t"," " >>) THEN Ok([kind |-> "Set"])
    ELSE IF command = << "s","e","t" >> THEN Ok([kind |-> "Unknown", text |-> command])
    ELSE IF starts_with(command, << "h","e","l","p"," " >>)
            \/ command \in {<< "h","e","l","p" >>, << "h" >>} THEN Ok([kind |-> "Help"])
    ELSE IF command \in {<< "b","n" >>, << "b","n","e","x","t" >>}
         THEN Ok([kind |-> "BufferNext"])
    ELSE IF command \in {<< "b","p" >>, << "b","p","r","e","v","i","o","u","s" >>}
         THEN Ok([kind |-> "BufferPrevious"])
    ELSE IF command \in {<< "l","s" >>, << "b","u","f","f","e","r","s" >>}
         THEN Ok([kind |-> "BufferList"])
    ELSE IF command \in {<< "b","d" >>, << "b","d","e","l","e","t","e" >>}
         THEN Ok([kind |-> "BufferDelete"])
    ELSE IF starts_with(command, << "b","d"," " >>)
         THEN IF IsSome(parse_usize(trim(Slice(command, 3, Len(command)))))
              THEN Ok([kind |-> "BufferDelete"])
              ELSE Ok([kind |-> "Unknown", text |-> command])
    ELSE IF command \in {<< "s","p" >>, << "s","p","l","i","t" >>} THEN Ok([kind |-> "Split"])
    ELSE IF command \in {<< "v","s","p" >>, << "v","s","p","l","i","t" >>}
         THEN Ok([kind |-> "VerticalSplit"])
    ELSE IF command \in {<< "c","l","o","s","e" >>, << "c","l","o" >>}
         THEN Ok([kind |-> "CloseWindow"])
    ELSE Ok([kind |-> "Unknown", text |-> command])

\* the command line once trimmed
parse_trimmed(trimmed) ==
    LET input == IF starts_with(trimmed, << ":" >>)
                 THEN Slice(trimmed, 1, Len(trimmed)) ELSE trimmed
        ranged(pair) == match_command(pair[1], pair[2])
    IN  IF trimmed = << >> THEN Err("Empty command")
        ELSE ranged(parse_range(input))

parse_command(input0) == parse_trimmed(trim(input0))

-----------------------------------------------------------------------------
(* Key mapper (src/src/keymap.rs).  An Action is [a |-> name, ch |-> c];   *)
(* ch is "" for the actions that carry no character.                       *)

Act(name) == [a |-> name, ch |-> ""]
ActCh(name, ch) == [a |-> name, ch |-> ch]

\* keys are unmodified, so the Ctrl bindings never match
map_normal_mode_key(key) ==
    CASE key = "h" -> Act("MoveLeft")
      [] key = "j" -> Act("MoveDown")
      [] key = "k" -> Act("MoveUp")
      [] key = "l" -> Act("MoveRight")
      [] key = "w" -> Act("MoveWordForward")
      [] key = "b" -> Act("MoveWordBackward")
      [] key = "e" -> Act("MoveWordEnd")
      [] key = "W" -> Act("MoveWordForwardBig")
      [] key = "B" -> Act("MoveWordBackwardBig")
      [] key = "E" -> Act("MoveWordEndBig")
      [] key = "0" -> Act("MoveLineStart")
      [] key = "^" -> Act("MoveLineFirstNonBlank")
      [] key = "$" -> Act("MoveLineEnd")
      [] key = "G" -> Act("MoveFileEnd")
      [] key = "}" -> Act("MoveParagraphForward")
      [] key = "{" -> Act("MoveParagraphBackward")
      [] key = "%" -> Act("MoveToPercent")
      [] key = ")" -> Act("MoveSentenceForward")
      [] key = "(" -> Act("MoveSentenceBackward")
      [] key = "H" -> Act("MoveToScreenTop")
      [] key = "M" -> Act("MoveToScreenMiddle")
      [] key = "L" -> Act("MoveToScreenBottom")
      [] key = "i" -> Act("EnterInsertMode")
      [] key = "I" -> Act("EnterInsertModeBeginning")
      [] key = "a" -> Act("EnterInsertModeAppend")
      [] key = "A" -> Act("EnterInsertModeAppendEnd")
      [] key = "o" -> Act("EnterInsertModeNewLineBelow")
      [] key = "O" -> Act("EnterInsertModeNewLineAbove")
      [] key = "R" -> Act("EnterReplaceMode")
      [] key = "v" -> Act("EnterVisualMode")
      [] key = "V" -> Act("EnterVisualLineMode")
      [] key = ":" -> Act("EnterCommandMode")
      [] key = "x" -> Act("DeleteChar")
      [] key = "u" -> Act("Undo")
      [] key = "." -> Act("RepeatLastChange")
      [] key = "d" -> Act("Delete")
      [] key = "D" -> Act("DeleteToEnd")
      [] key = "c" -> Act("Change")
      [] key = "C" -> Act("ChangeToEnd")
      [] key = "y" -> Act("Yank")
      [] key = "Y" -> Act("YankToEnd")
      [] key = "p" -> Act("Paste")
      [] key = "P" -> Act("PasteBefore")
      [] key = "J" -> Act("Join")
      [] key = ">" -> Act("Indent")
      [] key = "<" -> Act("Dedent")
      [] key = "=" -> Act("AutoIndent")
      [] key = "/" -> Act("SearchForward")
      [] key = "?" -> Act("SearchBackward")
      [] key = "n" -> Act("SearchNext")
      [] key = "N" -> Act("SearchPrevious")
      [] key = "*" -> Act("SearchWordForward")
      [] key = "#" -> Act("SearchWordBackward")
      [] OTHER -> Act("None")

map_insert_mode_key(key) ==
    CASE key = "Esc" -> Act("EnterNormalMode")
      [] key = "Enter" -> Act("InsertNewline")
      [] key = "Backspace" -> Act("DeleteChar")
      [] OTHER -> ActCh("InsertChar", key)

map_replace_mode_key(key) ==
    CASE key = "Esc" -> Act("EnterNormalMode")
      [] key = "Enter" -> Act("InsertNewline")
      [] key = "Backspace" -> Act("DeleteChar")
      [] OTHER -> ActCh("Replace", key)

map_visual_mode_key(key) ==
    CASE key = "Esc" -> Act("EnterNormalMode")
      [] key = "h" -> Act("MoveLeft")
      [] key = "j" -> Act("MoveDown")
      [] key = "k" -> Act("MoveUp")
      [] key = "l" -> Act("MoveRight")
      [] OTHER -> Act("None")

map_key(key, m) ==
    CASE m = "Normal" -> map_normal_mode_key(key)
      [] m = "Insert" -> map_insert_mode_key(key)
      [] m = "Replace" -> map_replace_mode_key(key)
      [] m \in {"Visual", "VisualLine", "VisualBlock"} -> map_visual_mode_key(key)
      [] m \in {"Command", "Search"} -> Act("None")

\* Editor::map_key_sequence (src/src/editor.rs): the key after a g or r prefix
map_key_sequence(prefix, key) ==
    IF prefix = "g"
    THEN CASE key = "g" -> Act("MoveFileStart")
           [] key = "e" -> Act("MoveWordEndBack")
           [] key = "E" -> Act("MoveWordEndBackBig")
           [] key = "_" -> Act("MoveLineEndNonBlank")
           [] key = "0" -> Act("MoveLineStartDisplay")
           [] key = "$" -> Act("MoveLineEndDisplay")
           [] key = "J" -> Act("JoinNoSpace")
           [] key = "u" -> Act("MakeLowercase")
           [] key = "U" -> Act("MakeUppercase")
           [] key = "~" -> Act("ToggleCase")
           [] key = ";" -> Act("JumpToChangeNext")
           [] key = "," -> Act("JumpToChangePrev")
           [] OTHER -> Act("None")
    ELSE IF prefix = "r"
    THEN IF IsCharKey(key) THEN ActCh("Replace", key) ELSE Act("None")
    ELSE Act("None")

-----------------------------------------------------------------------------
(* Editor state (src/src/editor.rs) *)

Pos(line, col) == [line |-> line, col |-> col]

\* Editor::new with its buffer replaced by one holding text; has_file tells
\* whether the buffer came from Buffer::from_file, writable tells whether
\* the file system accepts a write to the file
EditorOn(text, has_file, writable, checks) ==
    [rope |-> text, file_path |-> has_file, backup_path |-> has_file,
     modified |-> FALSE, line_ending |-> LineEnding_default, marks |-> {},
     backup |-> None, fs_ok |-> writable,
     file |-> IF has_file THEN text ELSE << >>,
     cursor |-> Pos(0, 0), registers |-> RegisterManager_new,
     mode |-> "Normal", command_buffer |-> << >>, message |-> None,
     should_quit |-> FALSE, pending_operator |-> "None", pending_key |-> None,
     count |-> 0, last_change |-> None, pending_text_object |-> None,
     pending_register |-> None, waiting_for_register |-> FALSE,
     waiting_for_mark |-> None, change_list |-> << >>, change_index |-> 0,
     jump_list |-> << >>, jump_index |-> 0, selection |-> None,
     recording_register |-> None, macro_buffer |-> << >>,
     last_macro_register |-> None,
     search_buffer |-> << >>, search_pattern |-> None, search_forward |-> TRUE,
     result |-> "Ok", panicked |-> FALSE,
     overflow_checks |-> checks]

\* the editor state held by the variables
State ==
    [rope |-> rope, file_path |-> file_path, backup_path |-> backup_path,
     modified |-> modified, line_ending |-> line_ending, marks |-> marks,
     backup |-> backup, fs_ok |-> fs_ok, file |-> file,
     cursor |-> cursor, registers |-> registers,
     mode |-> mode, command_buffer |-> command_buffer, message |-> message,
     should_quit |-> should_quit, pending_operator |-> pending_operator,
     pending_key |-> pending_key, count |-> count, last_change |-> last_change,
     pending_text_object |-> pending_text_object,
     pending_register |-> pending_register,
     waiting_for_register |-> waiting_for_register,
     waiting_for_mark |-> waiting_for_mark, change_list |-> change_list,
     change_index |-> change_index,
     jump_list |-> jump_list, jump_index |-> jump_index,
     selection |-> selection,
     recording_register |-> recording_register,
     macro_buffer |-> macro_buffer, last_macro_register |-> last_macro_register,
     search_buffer |-> search_buffer, search_pattern |-> search_pattern,
     search_forward |-> search_forward,
     result |-> result, panicked |-> panicked,
     overflow_checks |-> overflow_checks]

\* the variables take the editor state s
Becomes(s) ==
    /\ rope' = s.rope /\ file_path' = s.file_path /\ backup_path' = s.backup_path
    /\ modified' = s.modified /\ marks' = s.marks /\ backup' = s.backup
    /\ line_ending' = s.line_ending /\ file' = s.file
    /\ fs_ok' = s.fs_ok /\ cursor' = s.cursor /\ registers' = s.registers
    /\ mode' = s.mode /\ command_buffer' = s.command_buffer
    /\ message' = s.message /\ should_quit' = s.should_quit
    /\ pending_operator' = s.pending_operator /\ pending_key' = s.pending_key
    /\ count' = s.count /\ last_change' = s.last_change
    /\ pending_text_object' = s.pending_text_object
    /\ pending_register' = s.pending_register
    /\ waiting_for_register' = s.waiting_for_register
    /\ waiting_for_mark' = s.waiting_for_mark /\ change_list' = s.change_list
    /\ change_index' = s.change_index
    /\ jump_list' = s.jump_list /\ jump_index' = s.jump_index
    /\ selection' = s.selection
    /\ recording_register' = s.recording_register
    /\ macro_buffer' = s.macro_buffer
    /\ last_macro_register' = s.last_macro_register
    /\ search_buffer' = s.search_buffer /\ search_pattern' = s.search_pattern
    /\ search_forward' = s.search_forward
    /\ result' = s.result /\ panicked' = s.panicked
    /\ overflow_checks' = s.overflow_checks

\* the variables hold the editor state s
Holds(s) ==
    /\ rope = s.rope /\ file_path = s.file_path /\ backup_path = s.backup_path
    /\ modified = s.modified /\ marks = s.marks /\ backup = s.backup
    /\ line_ending = s.line_ending /\ file = s.file
    /\ fs_ok = s.fs_ok /\ cursor = s.cursor /\ registers = s.registers
    /\ mode = s.mode /\ command_buffer = s.command_buffer
    /\ message = s.message /\ should_quit = s.should_quit
    /\ pending_operator = s.pending_operator /\ pending_key = s.pending_key
    /\ count = s.count /\ last_change = s.last_change
    /\ pending_text_object = s.pending_text_object
    /\ pending_register = s.pending_register
    /\ waiting_for_register = s.waiting_for_register
    /\ waiting_for_mark = s.waiting_for_mark /\ change_list = s.change_list
    /\ change_index = s.change_index
    /\ jump_list = s.jump_list /\ jump_index = s.jump_index
    /\ selection = s.selection
    /\ recording_register = s.recording_register
    /\ macro_buffer = s.macro_buffer
    /\ last_macro_register = s.last_macro_register
    /\ search_buffer = s.search_buffer /\ search_pattern = s.search_pattern
    /\ search_forward = s.search_forward
    /\ result = s.result /\ panicked = s.panicked
    /\ overflow_checks = s.overflow_checks

\* a run starts in the editor state s
Starts(s) == Holds(s) /\ typed = << >> /\ rope0 = s.rope /\ cursor0 = s.cursor

-----------------------------------------------------------------------------
(* Cursor (src/src/cursor.rs) and the cursor helpers of the editor *)

move_up(s, lines) == [s EXCEPT !.cursor.line = saturating_sub(@, lines)]
move_down(s, lines) == [s EXCEPT !.cursor.line = Min(@ + lines, USIZE_MAX)]
move_left(s, cols) == [s EXCEPT !.cursor.col = saturating_sub(@, cols)]
move_right(s, cols) == [s EXCEPT !.cursor.col = Min(@ + cols, USIZE_MAX)]
move_to_line_start(s) == [s EXCEPT !.cursor.col = 0]
move_to_line_end(s, len) == [s EXCEPT !.cursor.col = saturating_sub(len, 1)]

(* Selection (src/src/selection.rs) *)

\* Selection::new
Selection_new(anchor, at, m) == [anchor |-> anchor, cursor |-> at, mode |-> m]

\* a selection anchored at the start of the buffer
from_origin(at, m) == [anchor |-> Pos(0, 0), cursor |-> at, mode |-> m]

\* Selection::from_cursor
from_cursor(at, m) == [anchor |-> at, cursor |-> at, mode |-> m]

\* an update that drags the anchor along with the cursor
update_cursor_with_anchor(sel, at) == [sel EXCEPT !.cursor = at, !.anchor = at]

\* Selection::update_cursor
update_cursor(sel, at) == [sel EXCEPT !.cursor = at]

\* Selection::range: the two ends in buffer order, widened to whole lines
\* for a line-wise selection
Selection_range(sel) ==
    LET ordered == IF \/ sel.anchor.line < sel.cursor.line
                      \/ /\ sel.anchor.line = sel.cursor.line
                         /\ sel.anchor.col <= sel.cursor.col
                   THEN [start |-> sel.anchor, end |-> sel.cursor]
                   ELSE [start |-> sel.cursor, end |-> sel.anchor]
    IN  IF sel.mode = "VisualLine"
        THEN [start |-> Pos(ordered.start.line, 0),
              end |-> Pos(ordered.end.line, USIZE_MAX)]
        ELSE ordered

\* a containment test that leaves the first column of the selection out
Selection_contains_after_start(sel, line, col) ==
    LET start == Selection_range(sel).start
        end == Selection_range(sel).end
    IN  CASE sel.mode = "Visual" ->
               IF line < start.line \/ line > end.line THEN FALSE
               ELSE IF start.line = end.line THEN col > start.col /\ col <= end.col
               ELSE IF line = start.line THEN col > start.col
               ELSE IF line = end.line THEN col <= end.col
               ELSE TRUE
          [] OTHER -> FALSE

\* Selection::contains
Selection_contains(sel, line, col) ==
    LET start == Selection_range(sel).start
        end == Selection_range(sel).end
    IN  CASE sel.mode = "Visual" ->
               IF line < start.line \/ line > end.line THEN FALSE
               ELSE IF start.line = end.line THEN col >= start.col /\ col <= end.col
               ELSE IF line = start.line THEN col >= start.col
               ELSE IF line = end.line THEN col <= end.col
               ELSE TRUE
          [] sel.mode = "VisualLine" -> line >= start.line /\ line <= end.line
          [] sel.mode = "VisualBlock" ->
               IF line < start.line \/ line > end.line THEN FALSE
               ELSE col >= Min(start.col, end.col) /\ col <= Max(start.col, end.col)
          [] OTHER -> FALSE

\* Editor::clamp_cursor: the line is clamped in every mode, the column in
\* Normal mode (on a line that is not empty) and in Insert mode; in a visual
\* mode the selection follows the cursor
clamp_cursor(s) ==
    LET lc == Max(line_count(s), 1)
        s1 == [s EXCEPT !.cursor.line = Min(@, lc - 1)]
        len == line_len(s1, s1.cursor.line)
    IN  CASE s.mode = "Normal" ->
               IF len > 0 THEN [s1 EXCEPT !.cursor.col = Min(@, saturating_sub(len, 1))]
               ELSE s1
          [] s.mode = "Insert" -> [s1 EXCEPT !.cursor.col = Min(@, len)]
          [] s.mode \in {"Visual", "VisualLine", "VisualBlock"} ->
               IF IsSome(s1.selection)
               THEN [s1 EXCEPT !.selection =
                        Some(update_cursor(Unwrap(@), s1.cursor))]
               ELSE s1
          [] s.mode \in {"Replace", "Command", "Search"} -> s1

\* the two peek loops of move_word_forward
RECURSIVE skip_word(_, _)
skip_word(text, col) ==
    IF col < Len(text) /\ ~is_whitespace(text[col + 1])
    THEN skip_word(text, col + 1) ELSE col

RECURSIVE skip_whitespace(_, _)
skip_whitespace(text, col) ==
    IF col < Len(text) /\ is_whitespace(text[col + 1])
    THEN skip_whitespace(text, col + 1) ELSE col

\* a word motion that stops at the end of the word, before the whitespace
move_word_forward_no_space(s) ==
    LET line_text == get_line(s, s.cursor.line)
    IN  IF IsSome(line_text)
        THEN clamp_cursor([s EXCEPT !.cursor.col =
                 skip_word(Unwrap(line_text), s.cursor.col)])
        ELSE s

move_word_forward(s) ==
    LET line_text == get_line(s, s.cursor.line)
    IN  IF IsSome(line_text)
        THEN clamp_cursor([s EXCEPT !.cursor.col =
                 skip_whitespace(Unwrap(line_text),
                                 skip_word(Unwrap(line_text), s.cursor.col))])
        ELSE s

\* the loops of move_word_backward; chars[col] is text[col + 1], and an
\* index past the end of chars panics
RECURSIVE back_whitespace(_, _)
back_whitespace(text, col) ==
    IF col > 0 /\ is_whitespace(text[col + 1])
    THEN back_whitespace(text, col - 1) ELSE col

RECURSIVE back_word(_, _)
back_word(text, col) ==
    IF col > 0 /\ ~is_whitespace(text[col + 1])
    THEN back_word(text, col - 1) ELSE col

move_word_backward(s) ==
    LET line_text == get_line(s, s.cursor.line)
        text == Unwrap(line_text)
        col0 == saturating_sub(s.cursor.col, 1)
        col1 == back_word(text, back_whitespace(text, col0))
        col2 == IF is_whitespace(text[col1 + 1]) /\ col1 < Len(text) - 1
                THEN col1 + 1 ELSE col1
    IN  IF ~IsSome(line_text) \/ s.cursor.col = 0 THEN s
        ELSE IF col0 >= Len(text) THEN [s EXCEPT !.panicked = TRUE]
        ELSE [s EXCEPT !.cursor.col = col2]

\* MaxChangeList is the cap of the change list
MaxChangeList == 100

\* a change recorder with no cap on the change list
record_change_uncapped(s, action) ==
    [s EXCEPT !.last_change = Some(<< action, s.count >>),
              !.change_list = Append(@, s.cursor),
              !.change_index = Len(s.change_list)]

\* a change recorder that keeps the change list but forgets the action
record_change_no_action(s, action) ==
    [s EXCEPT !.change_list = Append(@, s.cursor), !.change_index = Len(s.change_list)]

record_change(s, action) ==
    LET pushed == Append(s.change_list, s.cursor)
    IN  IF Len(pushed) > MaxChangeList
        THEN [s EXCEPT !.last_change = Some(<< action, s.count >>),
                       !.change_list = Tail(pushed),
                       !.change_index = saturating_sub(saturating_sub(Len(pushed), 1), 1)]
        ELSE [s EXCEPT !.last_change = Some(<< action, s.count >>),
                       !.change_list = pushed,
                       !.change_index = saturating_sub(Len(pushed), 1)]

\* a save_jump_position that keeps the entries after jump_index
save_jump_position_keeping_forward(s) ==
    LET pos == s.cursor
        marked == set_mark(set_mark(s, "'", pos), BACKQUOTE, pos)
        kept == s.jump_list
    IN  IF kept = << >> \/ kept[Len(kept)] # pos
        THEN [marked EXCEPT !.jump_list = Append(kept, pos),
                            !.jump_index = saturating_sub(Len(kept) + 1, 1)]
        ELSE [marked EXCEPT !.jump_list = kept]

\* Editor::save_jump_position: the marks ' and `, the truncation of the
\* entries after jump_index, and the push of a position that differs from
\* the last entry
save_jump_position(s) ==
    LET pos == s.cursor
        marked == set_mark(set_mark(s, "'", pos), BACKQUOTE, pos)
        kept == IF s.jump_index < saturating_sub(Len(s.jump_list), 1)
                THEN SubSeq(s.jump_list, 1, s.jump_index + 1)
                ELSE s.jump_list
    IN  IF kept = << >> \/ kept[Len(kept)] # pos
        THEN [marked EXCEPT !.jump_list = Append(kept, pos),
                            !.jump_index = saturating_sub(Len(kept) + 1, 1)]
        ELSE [marked EXCEPT !.jump_list = kept]

\* the cursor taken to an entry of the change list or of the jump list
jump_to_entry(s, entry) ==
    clamp_cursor([s EXCEPT !.cursor = Pos(Min(entry.line,
                                              saturating_sub(line_count(s), 1)),
                                          entry.col)])

-----------------------------------------------------------------------------
(* Operators on ranges and text objects (src/src/editor.rs) *)

\* the lines start_line..=end_line that exist, in order
RECURSIVE collect_lines(_, _, _)
collect_lines(s, start_line, end_line) ==
    IF start_line > end_line THEN << >>
    ELSE LET line_text == get_line(s, start_line)
         IN  (IF IsSome(line_text) THEN << Unwrap(line_text) >> ELSE << >>)
             \o collect_lines(s, start_line + 1, end_line)

\* the pieces of get_range_text are cut by byte index: RangeCutsOk says no
\* cut panics
RECURSIVE range_cuts_ok(_, _, _, _, _)
range_cuts_ok(s, line_idx, start_line, start_col, end) ==
    IF line_idx > end.line THEN TRUE
    ELSE LET line_text == get_line(s, line_idx)
             text == Unwrap(line_text)
             here ==
                 IF ~IsSome(line_text) THEN TRUE
                 ELSE IF line_idx = start_line
                 THEN is_char_boundary(text, Min(start_col, str_len(text)))
                 ELSE IF line_idx = end.line
                 THEN is_char_boundary(text, Min(end.col, str_len(text)))
                 ELSE TRUE
         IN  here /\ range_cuts_ok(s, line_idx + 1, start_line, start_col, end)

RECURSIVE range_text_lines(_, _, _, _, _)
range_text_lines(s, line_idx, start_line, start_col, end) ==
    IF line_idx > end.line THEN << >>
    ELSE LET line_text == get_line(s, line_idx)
             text == Unwrap(line_text)
             part ==
                 IF ~IsSome(line_text) THEN << >>
                 ELSE IF line_idx = start_line
                 THEN byte_slice(text, Min(start_col, str_len(text)), str_len(text))
                      \o << "\n" >>
                 ELSE IF line_idx = end.line
                 THEN byte_slice(text, 0, Min(end.col, str_len(text)))
                 ELSE text \o << "\n" >>
         IN  part \o range_text_lines(s, line_idx + 1, start_line, start_col, end)

\* whether get_range_text returns rather than panics
get_range_text_ok(s, start_line, start_col, end_line, end_col) ==
    IF start_line = end_line
    THEN LET line_text == get_line(s, start_line)
             text == Unwrap(line_text)
         IN  IsSome(line_text)
                 => byte_slice_ok(text, Min(start_col, str_len(text)),
                                  Min(end_col, str_len(text)))
    ELSE range_cuts_ok(s, start_line, start_line, start_col, Pos(end_line, end_col))

get_range_text(s, start_line, start_col, end_line, end_col) ==
    IF start_line = end_line
    THEN LET line_text == get_line(s, start_line)
             text == Unwrap(line_text)
         IN  IF IsSome(line_text)
             THEN byte_slice(text, Min(start_col, str_len(text)),
                             Min(end_col, str_len(text)))
             ELSE << >>
    ELSE range_text_lines(s, start_line, start_line, start_col, Pos(end_line, end_col))

\* the case and indent operators are entered by keys outside every key
\* alphabet used here: the CASE has no arm for them
apply_operator_to_range(s, sl, sc, el, ec) ==
    LET swap == sl > el \/ (sl = el /\ sc > ec)
        start_line == IF swap THEN el ELSE sl
        start_col == IF swap THEN ec ELSE sc
        end_line == IF swap THEN sl ELSE el
        end_col == IF swap THEN sc ELSE ec
        cuts == get_range_text_ok(s, start_line, start_col, end_line, end_col)
        text == get_range_text(s, start_line, start_col, end_line, end_col)
    IN  CASE s.pending_operator = "None" -> s
          [] s.pending_operator \in {"Delete", "Yank", "Change"} /\ ~cuts ->
               [s EXCEPT !.panicked = TRUE]
          [] s.pending_operator = "Delete" /\ cuts ->
               delete_range([s EXCEPT !.registers = set_delete(@, None, CharContent(text))],
                            start_line, start_col, end_line, end_col)
          [] s.pending_operator = "Yank" /\ cuts ->
               set_mark(set_mark(
                   [s EXCEPT !.registers = set_yank(@, None, CharContent(text)),
                             !.message = Some("Yanked " \o ToString(str_len(text))
                                              \o " characters")],
                   "[", Pos(start_line, start_col)), "]", Pos(end_line, end_col))
          [] s.pending_operator = "Change" /\ cuts ->
               [delete_range([s EXCEPT !.registers = set_delete(@, None, CharContent(text))],
                             start_line, start_col, end_line, end_col)
                   EXCEPT !.mode = "Insert"]

\* the loops of apply_text_object_word over chars
RECURSIVE fwd_while(_, _, _)
fwd_while(chars, end, white) ==
    IF end < Len(chars) /\ (is_whitespace(chars[end + 1]) <=> white)
    THEN fwd_while(chars, end + 1, white) ELSE end

RECURSIVE bwd_while(_, _, _)
bwd_while(chars, start, white) ==
    IF start > 0 /\ (is_whitespace(chars[start]) <=> white)
    THEN bwd_while(chars, start - 1, white) ELSE start

apply_text_object_word(s, modifier) ==
    LET line_text == get_line(s, s.cursor.line)
        chars == Unwrap(line_text)
        start0 == Min(s.cursor.col, saturating_sub(Len(chars), 1))
        end1 == IF is_whitespace(chars[start0 + 1]) /\ modifier = "Around"
                THEN fwd_while(chars, start0, TRUE) ELSE start0
        start1 == IF is_whitespace(chars[start0 + 1]) /\ modifier = "Around"
                     /\ end1 < Len(chars)
                  THEN end1 ELSE start0
        start2 == bwd_while(chars, start1, FALSE)
        end2 == fwd_while(chars, end1, FALSE)
        end3 == IF modifier = "Around" THEN fwd_while(chars, end2, TRUE) ELSE end2
        start3 == IF modifier = "Around"
                     /\ (end3 = Len(chars) \/ ~is_whitespace(chars[end3]))
                  THEN bwd_while(chars, start2, TRUE) ELSE start2
    IN  IF ~IsSome(line_text) THEN s
        ELSE IF chars = << >> THEN s
        ELSE apply_operator_to_range(s, s.cursor.line, start3, s.cursor.line, end3)

\* Editor::apply_text_object_quote: the nearest quote at or before the
\* cursor, then the next one after it, on the cursor's line
apply_text_object_quote(s, modifier, quote) ==
    LET line_text == get_line(s, s.cursor.line)
        chars == Unwrap(line_text)
        cursor_pos == Min(s.cursor.col, saturating_sub(Len(chars), 1))
        starts == {i \in 0..cursor_pos : chars[i + 1] = quote}
        start == CHOOSE i \in starts : \A j \in starts : j <= i
        ends == {i \in (start + 1)..(Len(chars) - 1) : chars[i + 1] = quote}
        end == CHOOSE i \in ends : \A j \in ends : i <= j
    IN  IF ~IsSome(line_text) THEN s
        ELSE IF chars = << >> THEN s
        ELSE IF starts = {} THEN s
        ELSE IF ends = {} THEN s
        ELSE IF modifier = "Inner"
        THEN apply_operator_to_range(s, s.cursor.line, start + 1, s.cursor.line, end)
        ELSE apply_operator_to_range(s, s.cursor.line, start, s.cursor.line, end + 1)

\* the three loops of apply_text_object_paragraph: back to the line after a
\* blank line, forward to the next blank line, and over the blank lines
RECURSIVE paragraph_start(_, _)
paragraph_start(s, start_line) ==
    IF start_line > 0
    THEN LET text == get_line(s, start_line - 1)
         IN  IF IsSome(text) /\ trim(Unwrap(text)) = << >> THEN start_line
             ELSE paragraph_start(s, start_line - 1)
    ELSE start_line

RECURSIVE paragraph_end(_, _)
paragraph_end(s, end_line) ==
    IF end_line < line_count(s) - 1
    THEN LET text == get_line(s, end_line + 1)
         IN  IF IsSome(text) /\ trim(Unwrap(text)) = << >> THEN end_line + 1
             ELSE paragraph_end(s, end_line + 1)
    ELSE end_line

RECURSIVE paragraph_blanks(_, _)
paragraph_blanks(s, end_line) ==
    IF end_line < line_count(s) - 1
    THEN LET text == get_line(s, end_line + 1)
         IN  IF ~IsSome(text) THEN end_line
             ELSE IF trim(Unwrap(text)) # << >> THEN end_line
             ELSE paragraph_blanks(s, end_line + 1)
    ELSE end_line

\* Editor::apply_text_object_paragraph
apply_text_object_paragraph(s, modifier) ==
    LET start_line == paragraph_start(s, s.cursor.line)
        inner_end == paragraph_end(s, s.cursor.line)
        end_line == IF modifier = "Around" THEN paragraph_blanks(s, inner_end)
                    ELSE inner_end
    IN  apply_operator_to_range(s, start_line, 0, end_line, line_len(s, end_line))

\* a text-object step that drops the operator and keeps the modifier
handle_text_object_keeping_modifier(s, key) ==
    [s EXCEPT !.pending_operator = "None"]

\* the text objects W and the brackets need keys outside every key
\* alphabet used here: the CASE has no arm for them
handle_text_object(s, key) ==
    LET modifier == Unwrap(s.pending_text_object)
        applied ==
            CASE key = "w" -> apply_text_object_word(s, modifier)
              [] key = "p" -> apply_text_object_paragraph(s, modifier)
              [] key \in {"\"", "'", BACKQUOTE} ->
                   apply_text_object_quote(s, modifier, key)
              [] key \notin {"w", "W", "p", "\"", "'", BACKQUOTE, "(", ")", "[", "]",
                             "{", "}", "<", ">"} -> s
    IN  IF key = "Esc"
        THEN [s EXCEPT !.pending_text_object = None, !.pending_operator = "None"]
        ELSE clamp_cursor([applied EXCEPT !.pending_text_object = None,
                                          !.pending_operator = "None"])

-----------------------------------------------------------------------------
(* Editor::execute_action (src/src/editor.rs) *)

EffCount(s) == IF s.count = 0 THEN 1 ELSE s.count

RECURSIVE move_word_forward_n(_, _)
move_word_forward_n(s, n) ==
    IF n = 0 THEN s ELSE move_word_forward_n(move_word_forward(s), n - 1)

RECURSIVE move_word_backward_n(_, _)
move_word_backward_n(s, n) ==
    IF n = 0 THEN s ELSE move_word_backward_n(move_word_backward(s), n - 1)

\* Paste of RegisterContent::Char: every character goes in at the cursor,
\* which then moves past it
RECURSIVE paste_char_text(_, _)
paste_char_text(s, text) ==
    IF text = << >> THEN s
    ELSE IF Head(text) = "\n"
    THEN paste_char_text(
             [insert_newline(s, s.cursor.line, s.cursor.col)
                 EXCEPT !.cursor = Pos(s.cursor.line + 1, 0)], Tail(text))
    ELSE paste_char_text(
             [insert_char(s, s.cursor.line, s.cursor.col, Head(text))
                 EXCEPT !.cursor.col = s.cursor.col + 1], Tail(text))

\* for ch in line.chars() { insert_char(target_line, 0, ch) }
RECURSIVE insert_line_chars(_, _, _)
insert_line_chars(s, target_line, text) ==
    IF text = << >> THEN s
    ELSE insert_line_chars(insert_char(s, target_line, 0, Head(text)),
                           target_line, Tail(text))

\* Paste of RegisterContent::Line: lines[i..] go below, the i-th at
\* insert_line + i (i counts from 0)
RECURSIVE paste_lines(_, _, _, _)
paste_lines(s, insert_line, lines, i) ==
    IF i >= Len(lines) THEN s
    ELSE LET target_line == insert_line + i
             opened == IF target_line > 0
                       THEN insert_newline(s, target_line - 1,
                                           line_len(s, target_line - 1))
                       ELSE s
         IN  paste_lines(insert_line_chars(opened, target_line, lines[i + 1]),
                         insert_line, lines, i + 1)

paste_once(s) ==
    LET content == registers_get(s.registers, None)
    IN  IF ~IsSome(content) THEN s
        ELSE CASE Unwrap(content).kind = "Char" ->
                    paste_char_text(s, Unwrap(content).val)
               [] Unwrap(content).kind = "Line" ->
                    [paste_lines(s, s.cursor.line + 1, Unwrap(content).val, 0)
                        EXCEPT !.cursor = Pos(s.cursor.line + 1, 0)]
               [] OTHER -> s

RECURSIVE paste_n(_, _)
paste_n(s, n) == IF n = 0 THEN s ELSE paste_n(paste_once(s), n - 1)

Paste(s) ==
    LET mark(pasted) == set_mark(set_mark(pasted, "[", s.cursor), "]", pasted.cursor)
    IN  mark(paste_n(s, EffCount(s)))

(* Search (src/src/editor.rs): execute_search and the two scans *)

\* str::find and str::rfind for a pattern: the byte offset of the first or
\* last match, or None
str_find(text, pattern) ==
    LET at == {i \in 0..(Len(text) - Len(pattern)) :
                  starts_with(Slice(text, i, Len(text)), pattern)}
    IN  IF at = {} THEN None
        ELSE Some(str_len(Slice(text, 0, CHOOSE i \in at : \A j \in at : i <= j)))
str_rfind(text, pattern) ==
    LET at == {i \in 0..(Len(text) - Len(pattern)) :
                  starts_with(Slice(text, i, Len(text)), pattern)}
    IN  IF at = {} THEN None
        ELSE Some(str_len(Slice(text, 0, CHOOSE i \in at : \A j \in at : i >= j)))

\* the lines of a range that hold the pattern; a for loop over the range
\* stops at the least of them, a reversed one at the greatest
lines_holding(s, from, to, pattern) ==
    {l \in from..(to - 1) :
        IsSome(get_line(s, l)) /\ IsSome(str_find(Unwrap(get_line(s, l)), pattern))}

\* search_forward_from: << the editor afterwards, the value returned >>.
\* The rest of the start line, the lines after it, then lines 0 up to but
\* not including the start line.  The slice of the start line panics when
\* start_col is not a character boundary.
search_forward_from(s, start_line, start_col, pattern) ==
    LET line_text == get_line(s, start_line)
        text == Unwrap(line_text)
        from == Min(start_col, str_len(text))
        pos == str_find(byte_slice(text, from, str_len(text)), pattern)
        after == lines_holding(s, start_line + 1, line_count(s), pattern)
        before == lines_holding(s, 0, start_line, pattern)
        first(ls) == CHOOSE l \in ls : \A k \in ls : l <= k
        hit(l) == Pos(l, Unwrap(str_find(Unwrap(get_line(s, l)), pattern)))
    IN  IF IsSome(line_text) /\ ~byte_slice_ok(text, from, str_len(text))
        THEN << [s EXCEPT !.panicked = TRUE], FALSE >>
        ELSE IF IsSome(line_text) /\ IsSome(pos)
        THEN << [s EXCEPT !.cursor = Pos(start_line, start_col + Unwrap(pos))], TRUE >>
        ELSE IF after # {}
        THEN << [s EXCEPT !.cursor = hit(first(after))], TRUE >>
        ELSE IF before # {}
        THEN << [s EXCEPT !.cursor = hit(first(before)),
                          !.message = Some("search hit BOTTOM, continuing at TOP")],
                TRUE >>
        ELSE << s, FALSE >>

\* search_backward_from: the start line before start_col, the lines before
\* it from the nearest, then the lines after it from the last
search_backward_from(s, start_line, start_col, pattern) ==
    LET line_text == get_line(s, start_line)
        text == Unwrap(line_text)
        to == Min(start_col, str_len(text))
        pos == str_rfind(byte_slice(text, 0, to), pattern)
        before == lines_holding(s, 0, start_line, pattern)
        after == lines_holding(s, start_line + 1, line_count(s), pattern)
        last(ls) == CHOOSE l \in ls : \A k \in ls : l >= k
        hit(l) == Pos(l, Unwrap(str_rfind(Unwrap(get_line(s, l)), pattern)))
    IN  IF IsSome(line_text) /\ ~byte_slice_ok(text, 0, to)
        THEN << [s EXCEPT !.panicked = TRUE], FALSE >>
        ELSE IF IsSome(line_text) /\ IsSome(pos)
        THEN << [s EXCEPT !.cursor = Pos(start_line, Unwrap(pos))], TRUE >>
        ELSE IF before # {}
        THEN << [s EXCEPT !.cursor = hit(last(before))], TRUE >>
        ELSE IF after # {}
        THEN << [s EXCEPT !.cursor = hit(last(after)),
                          !.message = Some("search hit TOP, continuing at BOTTOM")],
                TRUE >>
        ELSE << s, FALSE >>

execute_search(s) ==
    IF ~IsSome(s.search_pattern) THEN s
    ELSE LET pattern == Unwrap(s.search_pattern)
             start_line == s.cursor.line
             start_col == IF s.search_forward THEN s.cursor.col + 1
                          ELSE saturating_sub(s.cursor.col, 1)
             old_pos == s.cursor
             done == IF s.search_forward
                     THEN search_forward_from(s, start_line, start_col, pattern)
                     ELSE search_backward_from(s, start_line, start_col, pattern)
         IN  IF done[1].panicked THEN done[1]
             ELSE IF done[2]
             THEN set_mark(set_mark(done[1], "'", old_pos), BACKQUOTE, old_pos)
             ELSE [done[1] EXCEPT !.message = Some("Pattern not found")]

\* the keys of Search mode
handle_search_mode_key(s, key) ==
    CASE key = "Esc" -> [s EXCEPT !.mode = "Normal", !.search_buffer = << >>]
      [] key = "Enter" ->
           LET searched ==
                   IF s.search_buffer # << >>
                   THEN execute_search([s EXCEPT !.search_pattern = Some(s.search_buffer)])
                   ELSE s
           IN  IF searched.panicked THEN searched
               ELSE [searched EXCEPT !.mode = "Normal", !.search_buffer = << >>]
      [] key = "Backspace" ->
           LET popped == [s EXCEPT !.search_buffer = SubSeq(@, 1, Len(@) - 1)]
           IN  IF popped.search_buffer = << >>
               THEN [popped EXCEPT !.mode = "Normal"] ELSE popped
      [] OTHER -> [s EXCEPT !.search_buffer = Append(@, key)]

-----------------------------------------------------------------------------
\* the arms of the match; the arms left out (the big-word, paragraph,
\* sentence, screen, word-search, join, visual, bracket and percent actions) belong to
\* keys outside every key alphabet used here, and the CASE has no arm for
\* them.  The listed names with no arm in the source fall to its default arm.
RECURSIVE execute_action_arm(_, _)
execute_action_arm(s, action) ==
    CASE action.a = "MoveUp" -> clamp_cursor(move_up(s, EffCount(s)))
      [] action.a = "MoveDown" -> clamp_cursor(move_down(s, EffCount(s)))
      [] action.a = "MoveLeft" -> clamp_cursor(move_left(s, EffCount(s)))
      [] action.a = "MoveRight" -> clamp_cursor(move_right(s, EffCount(s)))
      [] action.a = "MoveWordForward" -> move_word_forward_n(s, EffCount(s))
      [] action.a = "MoveWordBackward" -> move_word_backward_n(s, EffCount(s))
      [] action.a = "MoveLineStart" -> move_to_line_start(s)
      [] action.a = "MoveLineEnd" -> move_to_line_end(s, line_len(s, s.cursor.line))
      [] action.a = "MoveFileStart" ->
           [save_jump_position(s) EXCEPT !.cursor =
               Pos(IF s.count > 0
                   THEN Min(s.count - 1, saturating_sub(line_count(s), 1))
                   ELSE 0, 0)]
      [] action.a = "MoveFileEnd" ->
           [save_jump_position(s) EXCEPT !.cursor =
               Pos(saturating_sub(line_count(s), 1), 0)]
      [] action.a = "JumpToChangeNext" ->
           IF s.change_index < saturating_sub(Len(s.change_list), 1)
           THEN jump_to_entry([s EXCEPT !.change_index = @ + 1],
                              s.change_list[s.change_index + 2])
           ELSE s
      [] action.a = "JumpToChangePrev" ->
           IF s.change_index > 0
           THEN jump_to_entry([s EXCEPT !.change_index = @ - 1],
                              s.change_list[s.change_index])
           ELSE s
      [] action.a = "JumpBack" ->
           IF s.jump_list = << >> THEN s
           ELSE LET drifted == /\ s.jump_index = Len(s.jump_list) - 1
                               /\ s.jump_list[s.jump_index + 1] # s.cursor
                    s1 == IF drifted
                          THEN [s EXCEPT !.jump_list = Append(@, s.cursor),
                                         !.jump_index = Len(s.jump_list)]
                          ELSE s
                IN  IF s1.jump_index > 0
                    THEN jump_to_entry([s1 EXCEPT !.jump_index = @ - 1],
                                       s1.jump_list[s1.jump_index])
                    ELSE s1
      [] action.a = "JumpForward" ->
           IF s.jump_index < saturating_sub(Len(s.jump_list), 1)
           THEN jump_to_entry([s EXCEPT !.jump_index = @ + 1],
                              s.jump_list[s.jump_index + 2])
           ELSE s
      [] action.a = "EnterInsertMode" -> [s EXCEPT !.mode = "Insert"]
      [] action.a = "EnterInsertModeBeginning" ->
           [move_to_line_start(s) EXCEPT !.mode = "Insert"]
      [] action.a = "EnterInsertModeAppend" ->
           [clamp_cursor(move_right(s, 1)) EXCEPT !.mode = "Insert"]
      [] action.a = "EnterInsertModeAppendEnd" ->
           [s EXCEPT !.cursor.col = line_len(s, s.cursor.line), !.mode = "Insert"]
      [] action.a = "EnterInsertModeNewLineBelow" ->
           [insert_newline(s, s.cursor.line, line_len(s, s.cursor.line))
               EXCEPT !.cursor = Pos(s.cursor.line + 1, 0), !.mode = "Insert"]
      [] action.a = "EnterInsertModeNewLineAbove" ->
           [insert_newline(s, s.cursor.line, 0)
               EXCEPT !.cursor.col = 0, !.mode = "Insert"]
      [] action.a = "EnterReplaceMode" -> [s EXCEPT !.mode = "Replace"]
      [] action.a = "EnterCommandMode" ->
           [s EXCEPT !.mode = "Command", !.command_buffer = << >>]
      [] action.a = "SearchForward" ->
           [s EXCEPT !.mode = "Search", !.search_buffer = << >>,
                     !.search_forward = TRUE]
      [] action.a = "SearchBackward" ->
           [s EXCEPT !.mode = "Search", !.search_buffer = << >>,
                     !.search_forward = FALSE]
      [] action.a = "SearchNext" ->
           IF IsSome(s.search_pattern) THEN execute_search(s) ELSE s
      [] action.a = "SearchPrevious" ->
           IF IsSome(s.search_pattern)
           THEN [execute_search([s EXCEPT !.search_forward = ~@])
                    EXCEPT !.search_forward = s.search_forward]
           ELSE s
      [] action.a = "EnterVisualMode" ->
           [s EXCEPT !.mode = "Visual",
                     !.selection = Some(from_cursor(s.cursor, "Visual"))]
      [] action.a = "EnterVisualLineMode" ->
           [s EXCEPT !.mode = "VisualLine",
                     !.selection = Some(from_cursor(s.cursor, "VisualLine"))]
      [] action.a = "EnterNormalMode" ->
           LET len == line_len(s, s.cursor.line)
               marked == IF s.mode \in {"Visual", "VisualLine"} /\ IsSome(s.selection)
                         THEN LET r == Selection_range(Unwrap(s.selection))
                              IN  set_mark(set_mark(s, "<", r.start), ">", r.end)
                         ELSE s
           IN  [marked EXCEPT !.mode = "Normal", !.selection = None,
                              !.cursor.col = IF len > 0 /\ @ >= len
                                             THEN saturating_sub(len, 1) ELSE @]
      [] action.a = "InsertChar" ->
           IF s.mode = "Insert"
           THEN move_right(insert_char(s, s.cursor.line, s.cursor.col, action.ch), 1)
           ELSE s
      [] action.a = "InsertNewline" ->
           IF s.mode \in {"Insert", "Replace"}
           THEN [insert_newline(s, s.cursor.line, s.cursor.col)
                    EXCEPT !.cursor = Pos(s.cursor.line + 1, 0)]
           ELSE s
      [] action.a = "DeleteChar" ->
           IF s.mode \in {"Insert", "Replace"}
           THEN IF s.cursor.col > 0
                THEN delete_char(move_left(s, 1), s.cursor.line, s.cursor.col - 1)
                ELSE s
           ELSE IF s.mode = "Normal"
           THEN clamp_cursor(delete_char(record_change(s, action),
                                         s.cursor.line, s.cursor.col))
           ELSE s
      [] action.a = "Replace" ->
           IF s.mode = "Replace"
           THEN move_right(
                    IF s.cursor.col < line_len(s, s.cursor.line)
                    THEN insert_char(delete_char(s, s.cursor.line, s.cursor.col),
                                     s.cursor.line, s.cursor.col, action.ch)
                    ELSE insert_char(s, s.cursor.line, s.cursor.col, action.ch), 1)
           ELSE LET rec == record_change(s, action)
                IN  IF s.cursor.col < line_len(s, s.cursor.line)
                    THEN insert_char(delete_char(rec, s.cursor.line, s.cursor.col),
                                     s.cursor.line, s.cursor.col, action.ch)
                    ELSE rec
      [] action.a = "Delete" -> [s EXCEPT !.pending_operator = "Delete"]
      [] action.a = "DeleteToEnd" ->
           LET end_col == line_len(s, s.cursor.line)
               text == Unwrap(get_line(s, s.cursor.line))
               deleted == byte_slice(text, s.cursor.col, end_col)
           IN  IF s.cursor.col < end_col /\ ~is_char_boundary(text, s.cursor.col)
               THEN [s EXCEPT !.panicked = TRUE]
               ELSE IF s.cursor.col < end_col
               THEN [delete_range(s, s.cursor.line, s.cursor.col, s.cursor.line, end_col)
                        EXCEPT !.registers = set_delete(@, None, CharContent(deleted))]
               ELSE s
      [] action.a = "Change" -> [s EXCEPT !.pending_operator = "Change"]
      [] action.a = "ChangeToEnd" ->
           LET end_col == line_len(s, s.cursor.line)
               text == Unwrap(get_line(s, s.cursor.line))
               deleted == byte_slice(text, s.cursor.col, end_col)
           IN  IF s.cursor.col < end_col /\ ~is_char_boundary(text, s.cursor.col)
               THEN [s EXCEPT !.panicked = TRUE]
               ELSE IF s.cursor.col < end_col
               THEN [delete_range(s, s.cursor.line, s.cursor.col, s.cursor.line, end_col)
                        EXCEPT !.registers = set_delete(@, None, CharContent(deleted)),
                               !.mode = "Insert"]
               ELSE [s EXCEPT !.mode = "Insert"]
      [] action.a = "Yank" -> [s EXCEPT !.pending_operator = "Yank"]
      [] action.a = "YankToEnd" ->
           LET line_text == get_line(s, s.cursor.line)
               text == Unwrap(line_text)
           IN  IF IsSome(line_text) /\ s.cursor.col < line_len(s, s.cursor.line)
               THEN IF is_char_boundary(text, s.cursor.col)
                    THEN [s EXCEPT !.registers = set_yank(@, None,
                              CharContent(byte_slice(text, s.cursor.col, str_len(text))))]
                    ELSE [s EXCEPT !.panicked = TRUE]
               ELSE s
      [] action.a = "Paste" -> Paste(s)
      [] action.a = "RepeatLastChange" ->
           IF IsSome(s.last_change)
           THEN LET last_action == Unwrap(s.last_change)[1]
                    last_count == Unwrap(s.last_change)[2]
                    saved_count == s.count
                    ran == clamp_cursor(execute_action_arm(
                               [s EXCEPT !.count = IF saved_count > 0 THEN saved_count
                                                   ELSE last_count],
                               last_action))
                IN  [ran EXCEPT !.count = saved_count]
           ELSE s
      [] action.a \in {"None", "Undo", "Redo", "SaveFile", "DeleteLine", "ChangeLine",
                       "SetMark", "JumpToMark", "JumpToMarkExact"} -> s

\* the match, then the clamp that ends every call (the viewport, which only
\* decides what is drawn, is left out); JumpBack on an empty jump list
\* returns before the clamp
execute_action(s, action) ==
    IF action.a = "JumpBack" /\ s.jump_list = << >> THEN s
    ELSE clamp_cursor(execute_action_arm(s, action))

RECURSIVE execute_action_n(_, _, _)
execute_action_n(s, action, n) ==
    IF n = 0 THEN s ELSE execute_action_n(execute_action(s, action), action, n - 1)

-----------------------------------------------------------------------------
(* Editor::handle_operator_motion (src/src/editor.rs) *)

Plural(n) == IF n = 1 THEN "" ELSE "s"

\* for _ in 0..count of the delete_line arm
RECURSIVE delete_lines_loop(_, _)
delete_lines_loop(s, n) ==
    IF n = 0 THEN s
    ELSE LET line == s.cursor.line
         IN  IF line < line_count(s) - 1
             THEN delete_lines_loop(delete_range(s, line, 0, line + 1, 0), n - 1)
             ELSE IF line > 0
             THEN [delete_range(s, line - 1, line_len(s, line - 1), line, line_len(s, line))
                      EXCEPT !.cursor.line = line - 1]
             ELSE s

\* for _ in 1..count of the change_line arm
RECURSIVE change_lines_loop(_, _)
change_lines_loop(s, n) ==
    IF n = 0 THEN s
    ELSE IF s.cursor.line < line_count(s) - 1
    THEN change_lines_loop(delete_range(s, s.cursor.line, 0, s.cursor.line + 1, 0), n - 1)
    ELSE s

\* a set of motions that counts DeleteChar among them
MotionsAndDeleteChar ==
    {"MoveUp", "MoveDown", "MoveLeft", "MoveRight", "MoveWordForward",
     "MoveWordBackward", "MoveWordEnd", "MoveWordEndBack", "MoveWordEndBackBig",
     "MoveWordForwardBig", "MoveWordBackwardBig", "MoveWordEndBig",
     "MoveLineStart", "MoveLineFirstNonBlank", "MoveLineEnd",
     "MoveLineEndNonBlank", "MoveLineStartDisplay", "MoveLineEndDisplay",
     "MoveFileStart", "MoveFileEnd", "MoveParagraphForward",
     "MoveParagraphBackward", "MoveSentenceForward", "MoveSentenceBackward",
     "FindChar", "FindCharBack", "TillChar", "TillCharBack", "RepeatLastFind",
     "RepeatLastFindReverse", "MoveToScreenTop", "MoveToScreenMiddle",
     "MoveToScreenBottom", "MoveMatchingBracket", "MoveToPercent", "MovePageUp",
     "MovePageDown", "MoveHalfPageUp", "MoveHalfPageDown", "DeleteChar"}

Motions ==
    {"MoveUp", "MoveDown", "MoveLeft", "MoveRight", "MoveWordForward",
     "MoveWordBackward", "MoveWordEnd", "MoveWordEndBack", "MoveWordEndBackBig",
     "MoveWordForwardBig", "MoveWordBackwardBig", "MoveWordEndBig",
     "MoveLineStart", "MoveLineFirstNonBlank", "MoveLineEnd",
     "MoveLineEndNonBlank", "MoveLineStartDisplay", "MoveLineEndDisplay",
     "MoveFileStart", "MoveFileEnd", "MoveParagraphForward",
     "MoveParagraphBackward", "MoveSentenceForward", "MoveSentenceBackward",
     "FindChar", "FindCharBack", "TillChar", "TillCharBack", "RepeatLastFind",
     "RepeatLastFindReverse", "MoveToScreenTop", "MoveToScreenMiddle",
     "MoveToScreenBottom", "MoveMatchingBracket", "MoveToPercent", "MovePageUp",
     "MovePageDown", "MoveHalfPageUp", "MoveHalfPageDown"}

handle_operator_motion(s, action) ==
    LET n == EffCount(s)
        start_line == s.cursor.line
        end_line == Min(start_line + n - 1, line_count(s) - 1)
        lines == collect_lines(s, start_line, end_line)
    IN  IF s.pending_operator = "Delete" /\ action.a = "Delete"
        THEN clamp_cursor(
                 [record_change(
                      delete_lines_loop(
                          [s EXCEPT !.registers = set_delete(@, None, LineContent(lines))],
                          n),
                      action)
                  EXCEPT !.pending_operator = "None"])
        ELSE IF s.pending_operator = "Yank" /\ action.a = "Yank"
        THEN clamp_cursor(
                 [s EXCEPT !.registers = set_yank(@, None, LineContent(lines)),
                           !.message = Some(ToString(Len(lines)) \o " line"
                                            \o Plural(Len(lines)) \o " yanked"),
                           !.pending_operator = "None"])
        ELSE IF s.pending_operator = "Change" /\ action.a = "Change"
        THEN LET saved == [s EXCEPT !.registers = set_delete(@, None, LineContent(lines))]
                 len == line_len(s, start_line)
                 emptied == IF len > 0
                            THEN delete_range(saved, start_line, 0, start_line, len)
                            ELSE saved
             IN  clamp_cursor(
                     [record_change(
                          [change_lines_loop(emptied, n - 1)
                              EXCEPT !.cursor.col = 0, !.mode = "Insert"],
                          action)
                      EXCEPT !.pending_operator = "None"])
        ELSE IF action.a = "EnterNormalMode"
        THEN [s EXCEPT !.pending_operator = "None"]
        ELSE IF action.a \in Motions
        THEN LET apply(moved) ==
                     apply_operator_to_range(moved, s.cursor.line, s.cursor.col,
                                             moved.cursor.line, moved.cursor.col)
                 record(applied) ==
                     IF s.pending_operator \notin {"Yank", "None"}
                     THEN record_change(applied, action) ELSE applied
                 restore(recorded) ==
                     IF s.pending_operator \in {"Delete", "Change"}
                     THEN [recorded EXCEPT !.cursor = s.cursor] ELSE recorded
             IN  clamp_cursor([restore(record(apply(execute_action_n(s, action, n))))
                                  EXCEPT !.pending_operator = "None"])
        ELSE clamp_cursor([s EXCEPT !.pending_operator = "None"])

-----------------------------------------------------------------------------
(* Ex-commands (src/src/editor.rs) *)

\* the text of a sequence of characters, for messages
RECURSIVE Text(_)
Text(chars) == IF chars = << >> THEN "" ELSE Head(chars) \o Text(Tail(chars))

\* str::replace: the non-overlapping matches, left to right
RECURSIVE str_replace(_, _, _)
str_replace(text, pattern, replacement) ==
    IF pattern = << >>
    THEN replacement \o (IF text = << >> THEN << >>
                         ELSE << Head(text) >> \o str_replace(Tail(text), pattern, replacement))
    ELSE IF Len(text) < Len(pattern) THEN text
    ELSE IF starts_with(text, pattern)
    THEN replacement \o str_replace(Slice(text, Len(pattern), Len(text)), pattern, replacement)
    ELSE << Head(text) >> \o str_replace(Tail(text), pattern, replacement)

\* str::replacen(pattern, replacement, 1)
RECURSIVE str_replace_first(_, _, _)
str_replace_first(text, pattern, replacement) ==
    IF Len(text) < Len(pattern) THEN text
    ELSE IF starts_with(text, pattern)
    THEN replacement \o Slice(text, Len(pattern), Len(text))
    ELSE << Head(text) >> \o str_replace_first(Tail(text), pattern, replacement)

\* str::matches(pattern).count()
RECURSIVE str_matches_count(_, _)
str_matches_count(text, pattern) ==
    IF pattern = << >> THEN Len(text) + 1
    ELSE IF Len(text) < Len(pattern) THEN 0
    ELSE IF starts_with(text, pattern)
    THEN 1 + str_matches_count(Slice(text, Len(pattern), Len(text)), pattern)
    ELSE str_matches_count(Tail(text), pattern)

\* for (i, ch) in new_text.chars().enumerate() { insert_char(line, i, ch) }
RECURSIVE insert_text_at(_, _, _, _)
insert_text_at(s, line, i, text) ==
    IF text = << >> THEN s
    ELSE insert_text_at(insert_char(s, line, i, Head(text)), line, i + 1, Tail(text))

\* returns << state, number of substitutions >>
execute_substitute_line(s, line, pattern, replacement, global) ==
    LET line_text == get_line(s, line)
        text == Unwrap(line_text)
        new_text == IF global THEN str_replace(text, pattern, replacement)
                    ELSE str_replace_first(text, pattern, replacement)
        n == IF global THEN str_matches_count(text, pattern)
             ELSE IF str_matches_count(text, pattern) > 0 THEN 1 ELSE 0
    IN  IF ~IsSome(line_text) THEN << s, 0 >>
        ELSE IF n > 0
        THEN << insert_text_at(delete_range(s, line, 0, line, line_len(s, line)),
                               line, 0, new_text), n >>
        ELSE << s, 0 >>

\* for line in start_line..=end_line, with the running total
RECURSIVE substitute_lines(_, _, _, _, _)
substitute_lines(s, line, end_line, cmd, total) ==
    IF line > end_line THEN << s, total >>
    ELSE LET done == execute_substitute_line(s, line, cmd.pattern, cmd.replacement,
                                             cmd.global)
         IN  substitute_lines(done[1], line + 1, end_line, cmd, total + done[2])

\* for line in (start..=end).rev() of the Delete arm
RECURSIVE delete_lines_rev(_, _, _)
delete_lines_rev(s, start, line) ==
    IF line < start THEN s
    ELSE LET emptied == delete_range(s, line, 0, line, line_len(s, line))
             joined == IF line < line_count(emptied)
                       THEN delete_char(emptied, line, 0) ELSE emptied
         IN  IF line = 0 THEN joined ELSE delete_lines_rev(joined, start, line - 1)

\* end - start + 1 in usize: an underflow panics under overflow checks and
\* wraps without them
RangeCount(start, end) == (end - start + 1) % (USIZE_MAX + 1)
RangeUnderflows(start, end) == end < start

\* Buffer::save (src/src/buffer.rs): the rope with its line feeds turned
\* back into the line ending of the file is written to the file; the file
\* system may refuse the write
save(s) ==
    IF ~s.file_path THEN [s EXCEPT !.result = "Err"]
    ELSE IF ~s.fs_ok THEN [s EXCEPT !.result = "Err"]
    ELSE remove_backup(set_modified(
             [s EXCEPT !.file = content_with_endings(s.rope, s.line_ending)],
             FALSE))

\* the Substitute arm
execute_substitute(s, cmd) ==
    LET lc == line_count(s)
        start_line == IF IsSome(cmd.range)
                      THEN saturating_sub(Unwrap(cmd.range).start, 1)
                      ELSE s.cursor.line
        end_line == IF IsSome(cmd.range)
                    THEN IF Unwrap(cmd.range).end = USIZE_MAX
                         THEN saturating_sub(lc, 1)
                         ELSE Min(saturating_sub(Unwrap(cmd.range).end, 1),
                                  saturating_sub(lc, 1))
                    ELSE s.cursor.line
        done == substitute_lines(s, start_line, end_line, cmd, 0)
        total_count == done[2]
        range_count == RangeCount(start_line, end_line)
    IN  IF RangeUnderflows(start_line, end_line) /\ s.overflow_checks
        THEN [done[1] EXCEPT !.panicked = TRUE]
        ELSE IF total_count > 0
        THEN [done[1] EXCEPT !.message =
                 Some(ToString(total_count) \o " substitution" \o Plural(total_count)
                      \o " on " \o ToString(range_count) \o " line"
                      \o Plural(range_count))]
        ELSE [done[1] EXCEPT !.message = Some("Pattern not found")]

\* the Delete arm
execute_delete(s, cmd) ==
    LET lc == line_count(s)
        start == Min(saturating_sub(Unwrap(cmd.range).start, 1), saturating_sub(lc, 1))
        end == IF Unwrap(cmd.range).end = USIZE_MAX
               THEN saturating_sub(lc, 1)
               ELSE Min(saturating_sub(Unwrap(cmd.range).end, 1), saturating_sub(lc, 1))
        done == delete_lines_rev(s, start, end)
        deleted_count == RangeCount(start, end)
    IN  IF ~IsSome(cmd.range) THEN [s EXCEPT !.message = Some("No range specified")]
        ELSE IF RangeUnderflows(start, end) /\ s.overflow_checks
        THEN [done EXCEPT !.panicked = TRUE]
        ELSE clamp_cursor([done EXCEPT !.message =
                 Some(ToString(deleted_count) \o " line" \o Plural(deleted_count)
                      \o " deleted")])

\* the Quit arm with the modified check left out
execute_quit_unchecked(s1) == [s1 EXCEPT !.should_quit = TRUE]

\* the Quit arm
execute_quit(s1) ==
    IF s1.modified
    THEN [s1 EXCEPT !.message =
             Some("No write since last change (use :q! to force)")]
    ELSE [s1 EXCEPT !.should_quit = TRUE]

\* the GoToLine arm
execute_goto_line(s1, line_num) ==
    LET target_line == saturating_sub(line_num, 1)
    IN  clamp_cursor([save_jump_position(s1) EXCEPT !.cursor =
            Pos(Min(target_line, saturating_sub(line_count(s1), 1)), 0)])

\* Edit, Set, Help and the buffer list need the file system or the
\* configuration, which are not part of this state: the CASE has no arm for
\* them
execute_parsed(s1, cmd) ==
    CASE cmd.kind = "Write" ->
            LET saved == save(s1)
            IN  IF saved.result = "Err" THEN saved
                ELSE [saved EXCEPT !.message = Some("File written")]
       [] cmd.kind = "Quit" -> execute_quit(s1)
       [] cmd.kind = "WriteQuit" ->
            LET saved == save(s1)
            IN  IF saved.result = "Err" THEN saved
                ELSE [saved EXCEPT !.should_quit = TRUE]
       [] cmd.kind = "ForceQuit" -> [s1 EXCEPT !.should_quit = TRUE]
       [] cmd.kind = "Substitute" -> execute_substitute(s1, cmd)
       [] cmd.kind = "Delete" -> execute_delete(s1, cmd)
       [] cmd.kind = "GoToLine" -> execute_goto_line(s1, cmd.line_num)
       [] cmd.kind = "BufferNext" ->
            [s1 EXCEPT !.message = Some("Already at the last buffer")]
       [] cmd.kind = "BufferPrevious" ->
            [s1 EXCEPT !.message = Some("Already at the first buffer")]
       [] cmd.kind = "BufferDelete" ->
            [s1 EXCEPT !.message = Some("Cannot delete last buffer")]
       [] cmd.kind = "Split" ->
            [s1 EXCEPT !.message = Some("Horizontal split not yet implemented")]
       [] cmd.kind = "VerticalSplit" ->
            [s1 EXCEPT !.message = Some("Vertical split not yet implemented")]
       [] cmd.kind = "CloseWindow" ->
            [s1 EXCEPT !.message = Some("Window closing not yet implemented")]
       [] cmd.kind = "Unknown" ->
            [s1 EXCEPT !.message = Some("Unknown command: " \o Text(cmd.text))]

execute_command(s) ==
    LET s1 == [s EXCEPT !.registers = update_last_command(@, s.command_buffer)]
        run(parsed) == IF ~parsed.ok THEN [s1 EXCEPT !.result = "Err"]
                       ELSE execute_parsed(s1, parsed.cmd)
    IN  run(parse_command(s.command_buffer))

\* Editor::handle_command_mode_key.  The command history and the completion
\* list are reached only through Up, Down and Tab, which are not keys here.
handle_command_mode_key(s, key) ==
    CASE key = "Esc" -> [s EXCEPT !.mode = "Normal", !.command_buffer = << >>]
      [] key = "Enter" ->
           LET after(done) ==
                   IF done.result = "Err" \/ done.panicked THEN done
                   ELSE [done EXCEPT !.mode = "Normal", !.command_buffer = << >>]
           IN  after(execute_command(s))
      [] key = "Backspace" ->
           LET popped == IF s.command_buffer = << >> THEN << >>
                         ELSE SubSeq(s.command_buffer, 1, Len(s.command_buffer) - 1)
           IN  [s EXCEPT !.command_buffer = popped,
                         !.mode = IF popped = << >> THEN "Normal" ELSE @]
      [] OTHER -> [s EXCEPT !.command_buffer = Append(@, key)]

-----------------------------------------------------------------------------
(* Editor::handle_key and Editor::play_macro (src/src/editor.rs).  depth    *)
(* counts the play_macro calls on the stack.                               *)

\* the arms of the mark operation for the buffer-local marks a-z; the
\* global marks A-Z are not part of this state and have no arm
handle_mark_key(s, c) ==
    LET mark_action == Unwrap(s.waiting_for_mark)
        s1 == [s EXCEPT !.waiting_for_mark = None]
        pos == IF c \in LowerLetters THEN get_mark(s, c) ELSE None
        lc == line_count(s)
    IN  CASE c \notin UpperLetters /\ mark_action = "Set" ->
               IF c \in LowerLetters THEN set_mark(s1, c, s.cursor) ELSE s1
          [] c \notin UpperLetters /\ mark_action = "Jump" ->
               IF IsSome(pos)
               THEN clamp_cursor([s1 EXCEPT !.cursor =
                        Pos(Min(Unwrap(pos).line, saturating_sub(lc, 1)), 0)])
               ELSE s1
          [] c \notin UpperLetters /\ mark_action = "JumpExact" ->
               IF IsSome(pos)
               THEN clamp_cursor([s1 EXCEPT !.cursor =
                        Pos(Min(Unwrap(pos).line, saturating_sub(lc, 1)),
                            Unwrap(pos).col)])
               ELSE s1

\* the tail of handle_key once the key has been mapped to an action: text
\* objects, operator and motion, plain action, and the reset of the count
handle_action(s, key, action) ==
    LET reset(x) == IF x.pending_operator = "None" /\ ~IsSome(x.pending_key)
                       /\ ~IsSome(x.pending_text_object)
                    THEN [x EXCEPT !.count = 0] ELSE x
    IN  IF s.pending_operator # "None"
        THEN IF key \in {"a", "i"} /\ ~IsSome(s.pending_text_object)
             THEN [s EXCEPT !.pending_text_object =
                      Some(IF key = "a" THEN "Around" ELSE "Inner")]
             ELSE IF IsSome(s.pending_text_object)
             THEN handle_text_object(s, key)
             ELSE reset(handle_operator_motion(s, action))
        ELSE reset(execute_action(s, action))

RECURSIVE handle_key(_, _, _)
RECURSIVE play_keys(_, _, _)
RECURSIVE play_times(_, _, _, _)

\* for key in &keys { self.handle_key(key.clone())?; }
play_keys(s, keys, depth) ==
    IF keys = << >> \/ s.result = "Err" \/ s.panicked THEN s
    ELSE play_keys(handle_key(s, Head(keys), depth), Tail(keys), depth)

\* for _ in 0..count
play_times(s, keys, n, depth) ==
    IF n = 0 \/ s.result = "Err" \/ s.panicked THEN s
    ELSE play_times(play_keys(s, keys, depth), keys, n - 1, depth)

\* a replay nested deeper than MaxMacroDepth is a macro that replays itself:
\* the recursion has no end and the stack runs out
play_macro(s, reg_char, depth) ==
    LET actual_reg == IF reg_char = "@" THEN s.last_macro_register ELSE Some(reg_char)
        reg == Unwrap(actual_reg)
        s1 == [s EXCEPT !.last_macro_register = Some(reg)]
        content == registers_get(s1.registers, Some(reg))
    IN  IF ~IsSome(actual_reg)
        THEN [s EXCEPT !.message = Some("No previously executed macro")]
        ELSE IF IsSome(content) /\ Unwrap(content).kind = "Macro"
        THEN IF depth >= MaxMacroDepth THEN [s1 EXCEPT !.panicked = TRUE]
             ELSE play_times(s1, Unwrap(content).val, EffCount(s1), depth + 1)
        ELSE [s1 EXCEPT !.message =
                 Some("Register @" \o reg \o " is empty or not a macro")]

\* handle_key after the macro recorder has seen the key
handle_key_body(s, key, depth) ==
    IF s.mode = "Command" THEN handle_command_mode_key(s, key)
    ELSE IF s.mode = "Search" THEN handle_search_mode_key(s, key)
    ELSE IF s.mode = "Normal" /\ IsSome(s.waiting_for_mark) /\ IsCharKey(key)
    THEN handle_mark_key(s, key)
    ELSE IF s.mode = "Normal" /\ ~IsSome(s.waiting_for_mark)
            /\ s.pending_operator = "None" /\ key \in {"m", "'", BACKQUOTE}
    THEN [s EXCEPT !.waiting_for_mark =
             Some(CASE key = "m" -> "Set" [] key = "'" -> "Jump"
                    [] key = BACKQUOTE -> "JumpExact")]
    ELSE IF s.mode = "Normal" /\ ~IsSome(s.waiting_for_mark)
            /\ s.pending_operator = "None" /\ key = "q"
            /\ ~IsSome(s.recording_register)
    THEN [s EXCEPT !.pending_key = Some("q")]
    ELSE IF s.mode = "Normal" /\ ~IsSome(s.waiting_for_mark)
            /\ s.pending_operator = "None" /\ key = "@"
    THEN [s EXCEPT !.pending_key = Some("@")]
    ELSE IF s.mode = "Normal" /\ s.waiting_for_register /\ IsCharKey(key)
    THEN [s EXCEPT !.pending_register = Some(key), !.waiting_for_register = FALSE]
    ELSE IF s.mode = "Normal" /\ ~s.waiting_for_register /\ key = "\""
    THEN [s EXCEPT !.waiting_for_register = TRUE]
    ELSE IF s.mode = "Normal" /\ is_ascii_digit(key)
            /\ (to_digit(key) # 0 \/ s.count # 0)
    THEN [s EXCEPT !.count = s.count * 10 + to_digit(key)]
    ELSE IF s.pending_key = Some("q")
    THEN IF key \in LowerLetters \cup Digits
         THEN [s EXCEPT !.recording_register = Some(key), !.macro_buffer = << >>,
                        !.message = Some("recording @" \o key), !.pending_key = None]
         ELSE [s EXCEPT !.pending_key = None]
    ELSE IF s.pending_key = Some("@")
    THEN LET after(played) ==
                 IF played.result = "Err" \/ played.panicked THEN played
                 ELSE [played EXCEPT !.pending_key = None]
         IN  after(IF IsCharKey(key) THEN play_macro(s, key, depth) ELSE s)
    ELSE IF ~IsSome(s.pending_key) /\ key \in {"g", "r"} /\ s.mode = "Normal"
    THEN [s EXCEPT !.pending_key = Some(key)]
    ELSE handle_action([s EXCEPT !.pending_key = None], key,
                       IF IsSome(s.pending_key)
                       THEN map_key_sequence(Unwrap(s.pending_key), key)
                       ELSE map_key(key, s.mode))

\* the macro recorder, then the rest; a call returns Ok unless the body
\* says otherwise
handle_key(s, key, depth) ==
    IF IsSome(s.recording_register)
       /\ key = "q" /\ s.mode = "Normal" /\ s.pending_operator = "None"
       /\ ~IsSome(s.pending_key) /\ ~IsSome(s.pending_text_object)
       /\ ~IsSome(s.waiting_for_mark) /\ ~s.waiting_for_register
    THEN [s EXCEPT !.registers = registers_set(@, s.recording_register,
                                               MacroContent(s.macro_buffer)),
                   !.message = Some("Recorded macro to @"
                                    \o Unwrap(s.recording_register)),
                   !.recording_register = None,
                   !.macro_buffer = << >>]
    ELSE handle_key_body([s EXCEPT !.macro_buffer =
                             IF IsSome(s.recording_register) THEN Append(@, key) ELSE @],
                         key, depth)

-----------------------------------------------------------------------------
(* Editor::run fed with Normal-mode keys.  One action: the loop reads one  *)
(* key event and hands it to handle_key; it stops when handle_key returns  *)
(* an error, when the process has panicked, or when should_quit is set.    *)

\* the text of a string literal as a sequence of characters
Line5 == << "a", "\n", "b", "c", "\n", "c", "\n", "d", "\n", "e" >>
HelloWorld == << "h", "e", "l", "l", "o", " ", "w", "o", "r", "l", "d" >>

Line5Gaps == << "a", "\n", "\n", "b", "\n", "\n" >>
\* five lines, the second of them a single two-byte character
Line5Wide == << "a", "\n", WIDE, "\n", "c", "\n", "d", "\n", "e" >>

Texts == {<< >>, << "a" >>, << "a", "b" >>, << "a", " ", "b" >>, HelloWorld, Line5,
          Line5Gaps, Line5Wide, << WIDE, "a", "b" >>}

\* the cursor positions clamp_cursor leaves in Normal mode
NormalCursors(text) ==
    {Pos(l, c) : l \in 0..(len_lines(text) - 1), c \in 0..MaxCoord} \cap
    {q \in [line : 0..(len_lines(text) - 1), col : 0..MaxCoord] :
        q.col <= saturating_sub(line_len([rope |-> text], q.line), 1)}

Keys == {"y", "p", "d", "w", "3", "x", ".", "Esc"}

Running == result = "Ok" /\ ~panicked /\ ~should_quit

Init ==
    \E text \in Texts : \E at \in NormalCursors(text) :
        Starts([EditorOn(text, TRUE, TRUE, TRUE) EXCEPT !.cursor = at])

Type(key) ==
    /\ Running
    /\ Len(typed) < MaxKeys
    /\ \E s2 \in {handle_key(State, key, 0)} :
           /\ s2.count <= MaxCount
           /\ Becomes(s2)
    /\ typed' = Append(typed, key)
    /\ UNCHANGED << rope0, cursor0 >>

Next == \E key \in Keys : Type(key)

Spec == Init /\ [][Next]_vars

-----------------------------------------------------------------------------
(* Properties of Normal-mode editing under Spec *)

\* the lines of a rope, in order
AllLines(text) == collect_lines([rope |-> text], 0, len_lines(text) - 1)

StartedOnOneLine == len_lines(rope0) = 1

\* C1: on a single-line buffer whose only line is s, the keys y y p yield a
\* two-line buffer whose two lines both equal s, character for character,
\* with the cursor on line 1, column 0.
C1_YankPasteDuplicatesLine ==
    (typed = << "y", "y", "p" >> /\ StartedOnOneLine)
        => /\ AllLines(rope) = << rope0, rope0 >>
           /\ cursor = Pos(1, 0)

\* y y p on the line "ab" leaves the lines "ab" and "ba"
C1_PastedLineReversed ==
    /\ typed = << "y", "y", "p" >>
    /\ rope0 = << "a", "b" >>
    /\ AllLines(rope) = << << "a", "b" >>, << "b", "a" >> >>
    /\ cursor = Pos(1, 0)

\* C6: with the cursor at column 0 of the line "hello world", the keys d w
\* leave the line "world", the cursor at column 0, no operator pending, and
\* the character-wise text "hello " in the unnamed register.
C6_DeleteWord ==
    (typed = << "d", "w" >> /\ rope0 = HelloWorld /\ cursor0 = Pos(0, 0))
        => /\ rope = << "w", "o", "r", "l", "d" >>
           /\ cursor = Pos(0, 0)
           /\ pending_operator = "None"
           /\ registers.unnamed = CharContent(<< "h", "e", "l", "l", "o", " " >>)

C6_DeleteWordDone ==
    /\ typed = << "d", "w" >> /\ rope0 = HelloWorld /\ cursor0 = Pos(0, 0)
    /\ rope = << "w", "o", "r", "l", "d" >>

\* C7: on a five-line buffer with the cursor on line c (counted from 0,
\* c + 2 <= 4), the keys 3 d d remove exactly the lines c, c+1, c+2, the
\* other two lines keep content and order, and the unnamed register holds
\* the three removed lines, in order, as a line-wise value.
C7_ThreeLinesDeleted ==
    (typed = << "3", "d", "d" >> /\ len_lines(rope0) = 5 /\ cursor0.line + 2 <= 4)
        => /\ AllLines(rope) = SubSeq(AllLines(rope0), 1, cursor0.line)
                               \o SubSeq(AllLines(rope0), cursor0.line + 4, 5)
           /\ registers.unnamed =
                  LineContent(SubSeq(AllLines(rope0), cursor0.line + 1, cursor0.line + 3))

\* 3 d d on the last three of the lines a, e-acute, c, d, e leaves three
\* lines, the last of them empty: the end of the previous line is sought at
\* its length in bytes
C7_EmptyLineLeft ==
    /\ typed = << "3", "d", "d" >> /\ rope0 = Line5Wide /\ cursor0 = Pos(2, 0)
    /\ AllLines(rope) = << << "a" >>, << WIDE >>, << >> >>
    /\ cursor = Pos(1, 0)
    /\ registers.unnamed = LineContent(<< << "c" >>, << "d" >>, << "e" >> >>)

\* C39: after N d d the lines stored line-wise in the unnamed register are
\* exactly the lines removed from the buffer, in order, also when the count
\* reaches or passes the last line; when it covers every line of the buffer
\* the buffer is left as one empty line
C39_DeletedLinesInRegister ==
    (typed \in {<< "d", "d" >>, << "3", "d", "d" >>})
        => LET n == IF Len(typed) = 2 THEN 1 ELSE 3
               before == AllLines(rope0)
               last == Min(cursor0.line + n, Len(before))
               removed == SubSeq(before, cursor0.line + 1, last)
               left == SubSeq(before, 1, cursor0.line)
                       \o SubSeq(before, last + 1, Len(before))
           IN  /\ registers.unnamed = LineContent(removed)
               /\ AllLines(rope) = IF left = << >> THEN << << >> >> ELSE left

\* d d on the one-line buffer a: the register holds the line a and the
\* buffer still holds it too
C39_OnlyLineKept ==
    /\ typed = << "d", "d" >>
    /\ rope0 = << "a" >> /\ rope = << "a" >>
    /\ registers.unnamed = LineContent(<< << "a" >> >>)
    /\ pending_operator = "None"

\* C9: on a line with at least two characters at or after the cursor, the
\* keys x . delete exactly the two characters that started at the cursor.
C9_DotRepeatsDeleteChar ==
    LET at == line_to_char(rope0, cursor0.line) + cursor0.col
    IN  (typed = << "x", "." >>
         /\ Len(Unwrap(get_line([rope |-> rope0], cursor0.line))) - cursor0.col >= 2)
            => rope = rope_remove(rope0, at, at + 2)

C9_TwoDeleted ==
    /\ typed = << "x", "." >> /\ rope0 = HelloWorld /\ cursor0 = Pos(0, 2)
    /\ Len(rope) = Len(rope0) - 2

\* C25: dot-repeat replays the most recent buffer-mutating change also when
\* that change was made by an operator: after d d, pressing . deletes one
\* more line, and after d w, pressing . deletes one more word, as the same
\* keys typed again would; in both cases no operator is left pending.
C25_DotRepeatsOperator ==
    [][(/\ typed \in {<< "d", "d" >>, << "d", "w" >>}
        /\ Type("."))
           => \E again \in {play_keys(State, typed, 0)} :
                  /\ rope' = again.rope
                  /\ pending_operator' = "None"
      ]_vars

\* d d . on the first of five lines: one line is gone, not two, and the
\* Delete operator is pending
C25_DotLeftOperatorPending ==
    /\ typed = << "d", "d", "." >> /\ rope0 = Line5 /\ cursor0 = Pos(0, 0)
    /\ len_lines(rope) = len_lines(rope0) - 1
    /\ pending_operator = "Delete"

-----------------------------------------------------------------------------
(* Editor::run fed with register-selection keys *)

RegKeys == {"\"", "a", "y", "d", "w"}

TypeReg(key) ==
    /\ Running
    /\ Len(typed) < MaxKeys
    /\ key \in RegKeys
    /\ Becomes(handle_key(State, key, 0))
    /\ typed' = Append(typed, key)
    /\ UNCHANGED << rope0, cursor0 >>

NextReg == \E key \in RegKeys : TypeReg(key)

SpecReg == Init /\ [][NextReg]_vars

\* C4: when a letter register r is selected with " r before a yank or a
\* delete (" a y y, " a d w), register r afterwards holds what the unnamed
\* register holds, and a yank also sets register 0.
C4_NamedRegisterFilled ==
    /\ typed \in {<< "\"", "a", "y", "y" >>, << "\"", "a", "d", "w" >>}
           => registers_get(registers, Some("a")) = Some(registers.unnamed)
    /\ typed = << "\"", "a", "y", "y" >>
           => registers_get(registers, Some("0")) = Some(registers.unnamed)

\* " a y y yanks the line into the unnamed register and register 0 and
\* leaves register a unset
C4_NamedRegisterUnset ==
    /\ typed = << "\"", "a", "y", "y" >>
    /\ rope0 = << "a", "b" >>
    /\ pending_register = Some("a")
    /\ registers.unnamed = LineContent(<< << "a", "b" >> >>)
    /\ registers_get(registers, Some("0")) = Some(registers.unnamed)
    /\ registers_get(registers, Some("a")) = None

-----------------------------------------------------------------------------
(* Editor::run fed with macro keys *)

\* keys typed in one run of the macro specification
MaxMacroKeys == 7

MacroKeys == {"q", "a", "x", "3", "@"}

InitMacro ==
    \E text \in {<< "a", "b" >>, HelloWorld} :
        Starts(EditorOn(text, TRUE, TRUE, TRUE))

TypeMacro(key) ==
    /\ Running
    /\ Len(typed) < MaxMacroKeys
    /\ key \in MacroKeys
    /\ \E s2 \in {handle_key(State, key, 0)} :
           /\ s2.count <= MaxCount
           /\ Becomes(s2)
    /\ typed' = Append(typed, key)
    /\ UNCHANGED << rope0, cursor0 >>

NextMacro == \E key \in MacroKeys : TypeMacro(key)

SpecMacro == InitMacro /\ [][NextMacro]_vars

\* C2: after q a x q on a line with at least 3 more characters, 3 @ a has
\* the effect of typing x three times: with the x typed while recording,
\* the four characters that started at the cursor are gone.
C2_MacroWithCount ==
    (typed = << "q", "a", "x", "q", "3", "@", "a" >> /\ Len(rope0) >= 4)
        => rope = rope_remove(rope0, 0, 4)

\* q a x q 3 @ a on "hello world" deletes three characters in all: the
\* first replayed x is taken as the register name of another @
C2_MacroDeletesOneLess ==
    /\ typed = << "q", "a", "x", "q", "3", "@", "a" >>
    /\ rope0 = HelloWorld
    /\ rope = rope_remove(rope0, 0, 3)
    /\ last_macro_register = Some("x")
    /\ message = Some("Register @x is empty or not a macro")

\* register reg holds a macro with at least one key and no @ key
HoldsPlainMacro(reg) ==
    LET content == registers_get(registers, Some(reg))
    IN  /\ IsSome(content)
        /\ Unwrap(content).kind = "Macro"
        /\ Unwrap(content).val # << >>
        /\ \A i \in 1..Len(Unwrap(content).val) : Unwrap(content).val[i] # "@"

\* C37: playing back a macro whose recorded keys contain no @ key
\* terminates and starts no nested playback, whatever the recorded keys are,
\* also when its first key is the letter of its own register: the playback
\* returns, and the macro register last played is the one that was named
C37_PlainMacroTerminates ==
    [][\A reg \in {"a", "x"} :
          (/\ mode = "Normal" /\ pending_key = Some("@")
           /\ ~IsSome(waiting_for_mark) /\ ~waiting_for_register
           /\ HoldsPlainMacro(reg)
           /\ TypeMacro(reg))
          => /\ ~panicked'
             /\ last_macro_register' = Some(reg)
      ]_vars

\* q x x q @ x: the macro of register x is the key x, which the playback
\* reads as the register of another @, and so on until the stack runs out
C37_MacroReplaysItself ==
    /\ typed = << "q", "x", "x", "q", "@", "x" >>
    /\ registers_get(registers, Some("x")) = Some(MacroContent(<< "x" >>))
    /\ panicked

-----------------------------------------------------------------------------
(* Editor::run fed with a yank, a macro recording and a paste              *)

\* keys typed in one run of the recording specification
MaxRecordKeys == 7

RecordTexts == {<< "a", " ", "b" >>, HelloWorld}
RecordKeys == {"y", "w", "q", "a", "p"}

InitRecord ==
    \E text \in RecordTexts : Starts(EditorOn(text, TRUE, TRUE, TRUE))

TypeRecord(key) ==
    /\ Running
    /\ Len(typed) < MaxRecordKeys
    /\ \E s2 \in {handle_key(State, key, 0)} : Becomes(s2)
    /\ typed' = Append(typed, key)
    /\ UNCHANGED << rope0, cursor0 >>

NextRecord == \E key \in RecordKeys : TypeRecord(key)

SpecRecord == InitRecord /\ [][NextRecord]_vars

\* C38: recording a macro does not disturb yanked text: the q that ends a
\* recording leaves the unnamed register and register 0 holding what they
\* held, so a following p pastes the text yanked before the recording
C38_RecordingKeepsYank ==
    [][(/\ IsSome(recording_register)
        /\ TypeRecord("q")
        /\ ~IsSome(recording_register'))
      => /\ registers_get(registers', None) = registers_get(registers, None)
         /\ registers_get(registers', Some("0")) = registers_get(registers, Some("0"))
      ]_vars

\* y w, q a w q, p: register 0 still holds the yanked word, the unnamed
\* register holds the macro, and the p has pasted nothing
C38_PasteAfterRecording ==
    /\ typed = << "y", "w", "q", "a", "w", "q", "p" >>
    /\ rope0 = HelloWorld /\ rope = HelloWorld
    /\ registers_get(registers, Some("0"))
           = Some(CharContent(<< "h", "e", "l", "l", "o", " " >>))
    /\ registers_get(registers, None) = Some(MacroContent(<< "w" >>))

-----------------------------------------------------------------------------
(* Editor::run fed with forward searches: / , a pattern, Enter, and n      *)

\* keys typed in one run of the search specification
MaxSearchKeys == 5

SearchTexts == {<< "a", "b" >>, << "a", "b", "a" >>, << "b", "\n", "a", "b" >>,
                << "a", "\n", "b", "\n", "a" >>, << WIDE, "a" >>}
SearchKeys == {"/", "a", "b", "Enter", "n"}

InitSearch ==
    \E text \in SearchTexts : \E at \in NormalCursors(text) :
        Starts([EditorOn(text, TRUE, TRUE, TRUE) EXCEPT !.cursor = at])

TypeSearch(key) ==
    /\ Running
    /\ Len(typed) < MaxSearchKeys
    /\ \E s2 \in {handle_key(State, key, 0)} : Becomes(s2)
    /\ typed' = Append(typed, key)
    /\ UNCHANGED << rope0, cursor0 >>

NextSearch == \E key \in SearchKeys : TypeSearch(key)

SpecSearch == InitSearch /\ [][NextSearch]_vars

\* the step runs a forward search that returns: Enter closing a / prompt
\* that holds a pattern, or n in Normal mode after a forward search
ForwardSearchStep ==
    /\ \/ mode = "Search" /\ search_buffer # << >> /\ TypeSearch("Enter")
       \/ mode = "Normal" /\ IsSome(search_pattern) /\ TypeSearch("n")
    /\ search_forward
    /\ ~panicked'
SearchedPattern == IF mode = "Search" THEN search_buffer ELSE Unwrap(search_pattern)

\* the pattern starts at byte column q.col of line q.line of the buffer
OccursAt(q, pattern) ==
    LET text == Unwrap(get_line(State, q.line))
    IN  /\ q.line < line_count(State)
        /\ q.col <= str_len(text) /\ is_char_boundary(text, q.col)
        /\ starts_with(byte_slice(text, q.col, str_len(text)), pattern)
Occurrences(pattern) ==
    {q \in [line : 0..(len_lines(rope) - 1), col : 0..Len(rope)] : OccursAt(q, pattern)}

\* C40: a forward search is complete: when the pattern occurs at a position
\* other than the cursor's, the earlier part of the cursor's own line
\* included, the search moves the cursor to an occurrence, and it reports
\* "Pattern not found" only when the pattern occurs nowhere
C40_ForwardSearchComplete ==
    [][ForwardSearchStep
        => /\ Occurrences(SearchedPattern) \ {cursor} # {}
               => /\ cursor' \in Occurrences(SearchedPattern)
                  /\ cursor' # cursor
           /\ (cursor' = cursor /\ message' = Some("Pattern not found"))
               => Occurrences(SearchedPattern) = {}
      ]_vars

\* on the line ab with the cursor on b, / a Enter leaves the cursor where it
\* is and reports that the pattern was not found
C40_EarlierOnLineMissed ==
    /\ typed = << "/", "a", "Enter" >>
    /\ rope0 = << "a", "b" >> /\ rope = rope0
    /\ cursor0 = Pos(0, 1) /\ cursor = cursor0
    /\ message = Some("Pattern not found")

-----------------------------------------------------------------------------
(* Editor::run fed with ex-command lines.  One action types a whole line:  *)
(* the key : , the characters of the command, and Enter, each through      *)
(* handle_key; the loop stops within the line as it does between lines.    *)

\* command lines typed in one run of the ex-command specification
MaxCommands == 2

FooText == << "f", "o", "o", "\n", "x", "f", "o", "o", "f", "o", "o", "\n", "f", "o" >>

\* a line that starts with a two-byte character
FooWide == << WIDE, "f", "o", "o" >>

ExTexts == {Line5, FooText, FooWide, << "a", "b" >>}

RangeEnds == {"1", "3", "5"}

DeleteCmd(a, b) == << a, ",", b, "d" >>
SubstituteAll == << "%", "s", "/", "f", "o", "o", "/", "b", "a", "r", "/", "g" >>
SubstituteFoo == << "s", "/", "f", "o", "o", "/", "b", "a", "r", "/" >>
SubstituteCmd(a, b) == << a, ",", b >> \o SubstituteFoo

\* command lines whose range starts at 0, ends before it starts, or starts
\* beyond the last line
OddRangeCommands ==
    {DeleteCmd("0", "1"), SubstituteCmd("0", "1"), SubstituteCmd("3", "1"),
     SubstituteCmd("1", "3"), << "5" >> \o SubstituteFoo}

ExCommands ==
    {DeleteCmd(a, b) : a \in RangeEnds, b \in RangeEnds}
    \cup {SubstituteAll,
          << "s", "/", "f", "o", "o", "/", "b", "a", "r", "/" >>,
          << "s", "/", "f", "o", "o" >>,
          << >>, << "w" >>, << "w", "q" >>, << "x" >>, << "q" >>, << "q", "!" >>,
          << "%", "d" >>, << "d" >>, << "z", "z" >>}
    \cup OddRangeCommands

CmdKeys(cmd) == << ":" >> \o cmd \o << "Enter" >>

CommandsTyped == Cardinality({i \in 1..Len(typed) : typed[i] = "Enter"})

\* the editor opened on a file, on a file that cannot be written, or on no
\* file; built with or without overflow checks
InitEx ==
    \E text \in ExTexts : \E files \in {<< TRUE, TRUE >>, << TRUE, FALSE >>,
                                         << FALSE, FALSE >>} :
        \E checks \in BOOLEAN :
            Starts(EditorOn(text, files[1], files[2], checks))

TypeCommand(cmd) ==
    /\ Running
    /\ CommandsTyped < MaxCommands
    /\ cmd \in ExCommands
    /\ Becomes(play_keys(State, CmdKeys(cmd), 0))
    /\ typed' = typed \o CmdKeys(cmd)
    /\ UNCHANGED << rope0, cursor0 >>

NextEx == \E cmd \in ExCommands : TypeCommand(cmd)

SpecEx == InitEx /\ [][NextEx]_vars

EndsWith(keys, suffix) ==
    /\ Len(keys) >= Len(suffix)
    /\ SubSeq(keys, Len(keys) - Len(suffix) + 1, Len(keys)) = suffix

\* C3: the command :a,bd with 1 <= a <= b <= line_count (here leaving at
\* least one line) removes the whole lines a..b, counted from 1: the
\* remaining lines are the lines before a and the lines after b, in order.
C3_RangeDeleteRemovesLines ==
    \A a \in RangeEnds : \A b \in RangeEnds :
        LET lines == AllLines(rope0)
            first == to_digit(a)
            last == to_digit(b)
        IN  (/\ typed = CmdKeys(DeleteCmd(a, b))
             /\ first <= last /\ last <= Len(lines)
             /\ last - first + 1 < Len(lines))
                => AllLines(rope) = SubSeq(lines, 1, first - 1)
                                    \o SubSeq(lines, last + 1, Len(lines))

\* :1,3d on five lines empties the first three lines and removes none
C3_LinesEmptiedNotRemoved ==
    /\ typed = CmdKeys(DeleteCmd("1", "3")) /\ rope0 = Line5
    /\ AllLines(rope) = << << >>, << >>, << >>, << "d" >>, << "e" >> >>
    /\ message = Some("3 lines deleted")

\* the commands whose execution produces an error: the empty command line,
\* and :w or :wq on a buffer with no file path
C5_Failing(cmd) ==
    \/ cmd = << >>
    \/ cmd \in {<< "w" >>, << "w", "q" >>} /\ ~file_path

\* C5: an error produced while executing an ex-command is caught:
\* handle_key returns Ok, a status message is set, the editor is in Normal
\* mode with an empty command buffer, and the run loop goes on.
C5_ErrorsCaught ==
    \A cmd \in ExCommands :
        (EndsWith(typed, CmdKeys(cmd)) /\ C5_Failing(cmd))
            => /\ result = "Ok"
               /\ IsSome(message)
               /\ mode = "Normal"
               /\ command_buffer = << >>
               /\ ~should_quit

\* Enter on the empty command line: handle_key returns the parse error, no
\* message is set and the editor is left in Command mode
C5_ErrorReturned ==
    /\ typed = CmdKeys(<< >>)
    /\ result = "Err"
    /\ message = None
    /\ mode = "Command"

FooLines(text) ==
    [i \in 1..len_lines(text) |->
        str_replace(AllLines(text)[i], << "f", "o", "o" >>, << "b", "a", "r" >>)]

RECURSIVE FooTotal(_)
FooTotal(lines) ==
    IF lines = << >> THEN 0
    ELSE str_matches_count(Head(lines), << "f", "o", "o" >>) + FooTotal(Tail(lines))

\* C8: :%s/foo/bar/g replaces every occurrence of foo on every line by bar
\* and reports the number of occurrences replaced; executed again, it
\* leaves the buffer as it is and reports "Pattern not found".
C8_SubstituteEverywhere ==
    LET total == FooTotal(AllLines(rope0))
        lc == len_lines(rope0)
    IN  /\ typed = CmdKeys(SubstituteAll)
            => /\ AllLines(rope) = FooLines(rope0)
               /\ message = IF total > 0
                             THEN Some(ToString(total) \o " substitution" \o Plural(total)
                                       \o " on " \o ToString(lc) \o " line" \o Plural(lc))
                             ELSE Some("Pattern not found")
        /\ typed = CmdKeys(SubstituteAll) \o CmdKeys(SubstituteAll)
            => /\ AllLines(rope) = FooLines(rope0)
               /\ message = Some("Pattern not found")

\* on the line e-acute foo the old line is not removed, as its length is
\* taken in bytes: the new text is put in front of it
C8_OldLineKept ==
    /\ typed = CmdKeys(SubstituteAll) /\ rope0 = FooWide
    /\ rope = << WIDE, "b", "a", "r", WIDE, "f", "o", "o" >>
    /\ message = Some("1 substitution on 1 line")

\* the commands of ExCommands that carry a range of two line numbers, as
\* << command, start, end, is a Delete >>
RangedCommands ==
    {<< DeleteCmd(a, b), to_digit(a), to_digit(b), TRUE >> :
         a \in RangeEnds \cup {"0"}, b \in RangeEnds}
    \cup {<< SubstituteCmd(a, b), to_digit(a), to_digit(b), FALSE >> :
              a \in {"0", "1", "3"}, b \in {"1", "3"}}
    \cup {<< << "5" >> \o SubstituteFoo, 5, 5, FALSE >>}

\* C12: for every parsed range (start, end), also with start > end, start = 0
\* or start beyond the last line, Substitute and Delete complete without an
\* underflow or a panic (the line count reported is one of the buffer), and
\* the lines before and after the range are unchanged.
C12_RangeArithmeticSafe ==
    \A c \in RangedCommands :
        LET lines == AllLines(rope0)
            lc == Len(lines)
            before == Min(saturating_sub(c[2], 1), lc)
            after == lc - Min(Max(c[3], before), lc)
            now == AllLines(rope)
        IN  (typed = CmdKeys(c[1]) /\ c[1] \in ExCommands)
                => /\ ~panicked /\ result = "Ok"
                   /\ message \in
                          {Some("Pattern not found")}
                          \cup {Some(ToString(n) \o " line" \o Plural(n) \o " deleted") :
                                    n \in 0..lc}
                          \cup {Some(ToString(k) \o " substitution" \o Plural(k)
                                     \o " on " \o ToString(n) \o " line" \o Plural(n)) :
                                    k \in 1..Len(rope0), n \in 0..lc}
                   /\ Len(now) >= before + after
                   /\ SubSeq(now, 1, before) = SubSeq(lines, 1, before)
                   /\ SubSeq(now, Len(now) - after + 1, Len(now))
                          = SubSeq(lines, lc - after + 1, lc)

\* :5,1d on five lines in a build with overflow checks: end - start + 1 is
\* 0 - 4 + 1 and the subtraction panics, with the text untouched
C12_DeleteRangePanics ==
    /\ typed = CmdKeys(DeleteCmd("5", "1")) /\ rope0 = Line5
    /\ overflow_checks /\ panicked /\ rope = rope0

\* C13: :q on a modified buffer never sets should_quit: it sets the refusal
\* message and leaves text, cursor and modified flag as they were; :q on an
\* unmodified buffer sets should_quit.
C13_QuitRefusesWhenModified ==
    [][TypeCommand(<< "q" >>) =>
           IF modified
           THEN /\ ~should_quit'
                /\ message' = Some("No write since last change (use :q! to force)")
                /\ rope' = rope /\ cursor' = cursor /\ modified'
                /\ result' = "Ok" /\ ~panicked'
           ELSE should_quit'
      ]_vars

\* :q after a substitution that changed the text: the editor goes on
C13_QuitRefused ==
    /\ typed = CmdKeys(SubstituteAll) \o CmdKeys(<< "q" >>)
    /\ rope # rope0 /\ modified /\ ~should_quit
    /\ message = Some("No write since last change (use :q! to force)")
    /\ mode = "Normal"

\* C14: :q!, :wq and :x always end with should_quit set, whatever the
\* modified flag is and whether or not the buffer has a file path.
C14_ForcedQuitsAlwaysQuit ==
    \A cmd \in {<< "q", "!" >>, << "w", "q" >>, << "x" >>} :
        EndsWith(typed, CmdKeys(cmd)) => should_quit

\* :wq on a modified buffer with no file path: save fails, the error leaves
\* execute_command before should_quit is set
C14_WriteQuitFailed ==
    /\ typed = CmdKeys(SubstituteAll) \o CmdKeys(<< "w", "q" >>)
    /\ ~file_path /\ modified
    /\ ~should_quit /\ result = "Err" /\ mode = "Command"

-----------------------------------------------------------------------------
(* Editor::run fed with the jumps gg, G and :N on a two-line buffer.  typed *)
(* holds the last key or command line only.                                *)

\* entries of the jump list beyond which the run is not followed
MaxJumps == 101

JumpTexts == {<< "a", "\n", "b" >>, << "a", "b", "\n" >>}
JumpKeys == {"g", "G"}
JumpCommands == {<< "1" >>, << "2" >>}

InitJump ==
    \E text \in JumpTexts : \E at \in NormalCursors(text) :
        Starts([EditorOn(text, TRUE, TRUE, TRUE) EXCEPT !.cursor = at])

TypeJump(key) ==
    /\ Running
    /\ Len(jump_list) < MaxJumps
    /\ \E s2 \in {handle_key(State, key, 0)} : Becomes(s2)
    /\ typed' = << key >>
    /\ UNCHANGED << rope0, cursor0 >>

TypeGoToLine(cmd) ==
    /\ Running
    /\ Len(jump_list) < MaxJumps
    /\ \E s2 \in {play_keys(State, CmdKeys(cmd), 0)} : Becomes(s2)
    /\ typed' = CmdKeys(cmd)
    /\ UNCHANGED << rope0, cursor0 >>

NextJump ==
    \/ \E key \in JumpKeys : TypeJump(key)
    \/ \E cmd \in JumpCommands : TypeGoToLine(cmd)

SpecJump == InitJump /\ [][NextJump]_vars

\* C15: after any sequence of jumps the jump list holds at most 100 entries,
\* the oldest being evicted when a new one would exceed 100.
C15_JumpListCapped == Len(jump_list) <= 100

\* the jump list holds 101 entries and the first position recorded, the
\* oldest, is still its first entry
C15_JumpListOverCap ==
    /\ Len(jump_list) = 101
    /\ jump_list[1] = cursor0
    /\ jump_index = 100

-----------------------------------------------------------------------------
(* Editor::run fed with the change x and the change-list jumps g; and g,.  *)
(* A run starts on a fresh editor or on one in which x has been typed      *)
(* often enough to bring the change list near its cap; rope0 and cursor0   *)
(* are the text and the cursor before those x, and typed holds the keys    *)
(* typed after them.                                                       *)

\* keys typed in one run of the change-list specification
MaxChangeKeys == 6

ChangeTexts == {<< "a" >>, << "a", "b" >>, << "a", "b", "\n", "c" >>}
ChangeKeys == {"x", "g", ";", ","}

\* the numbers of x typed before a run starts
PriorChanges == {0, MaxChangeList - 2, MaxChangeList - 1, MaxChangeList}

InitChange ==
    \E text \in ChangeTexts : \E at \in NormalCursors(text) : \E n \in PriorChanges :
        /\ Holds(play_times([EditorOn(text, TRUE, TRUE, TRUE) EXCEPT !.cursor = at],
                            << "x" >>, n, 0))
        /\ typed = << >> /\ rope0 = text /\ cursor0 = at

TypeChange(key) ==
    /\ Running
    /\ Len(typed) < MaxChangeKeys
    /\ \E s2 \in {handle_key(State, key, 0)} : Becomes(s2)
    /\ typed' = Append(typed, key)
    /\ UNCHANGED << rope0, cursor0 >>

NextChange == \E key \in ChangeKeys : TypeChange(key)

SpecChange == InitChange /\ [][NextChange]_vars

\* C16: the change list holds at most 100 entries, change_index is an index
\* into it whenever it is not empty, also after g; and g, and a change
\* recorded on a full list evicts the oldest entry.
C16_ChangeListCapped ==
    [][/\ Len(change_list') <= 100
       /\ change_list' # << >> => change_index' < Len(change_list')
       /\ change_list' # change_list =>
              /\ change_list' = IF Len(change_list) = 100
                                THEN Tail(change_list) \o << cursor >>
                                ELSE Append(change_list, cursor)
              /\ change_index' = Len(change_list') - 1
      ]_vars

\* on the line ab, x typed from the last character until the list is full or
\* nearly so, and then twice more: the first position recorded, (0,1), has
\* been evicted; g, has then stepped back from the newest entry and g;
\* forward again
C16_OldestEvicted ==
    /\ rope0 = << "a", "b" >> /\ cursor0 = Pos(0, 1)
    /\ typed = << "x", "x", "g", ",", "g", ";" >>
    /\ Len(change_list) = 100
    /\ \A i \in 1..100 : change_list[i] = Pos(0, 0)
    /\ change_index = 99

-----------------------------------------------------------------------------
(* RegisterManager under direct calls of set, set_yank and set_delete.     *)
(* typed holds the name of the last operation called and the register it   *)
(* was given ("" for None).                                                *)

RegContents == {CharContent(<< "a" >>), CharContent(<< "b", "c" >>),
                LineContent(<< << "d" >> >>)}
RegNames == {None, Some("a"), Some("b"), Some("_"), Some("%"), Some("0")}
RegName(register) == IF IsSome(register) THEN Unwrap(register) ELSE ""

InitBank == Starts(EditorOn(<< >>, FALSE, FALSE, TRUE))

CallSet(register, content) ==
    /\ Becomes([State EXCEPT !.registers = registers_set(@, register, content)])
    /\ typed' = << "set", RegName(register) >>
    /\ UNCHANGED << rope0, cursor0 >>

CallSetYank(register, content) ==
    /\ Becomes([State EXCEPT !.registers = set_yank(@, register, content)])
    /\ typed' = << "set_yank", RegName(register) >>
    /\ UNCHANGED << rope0, cursor0 >>

CallSetDelete(register, content) ==
    /\ Becomes([State EXCEPT !.registers = set_delete(@, register, content)])
    /\ typed' = << "set_delete", RegName(register) >>
    /\ UNCHANGED << rope0, cursor0 >>

NextBank ==
    \/ \E register \in RegNames, content \in RegContents : CallSet(register, content)
    \/ \E register \in RegNames, content \in RegContents : CallSetYank(register, content)
    \/ \E register \in RegNames, content \in RegContents :
           CallSetDelete(register, content)

SpecBank == InitBank /\ [][NextBank]_vars

\* C17: writes addressed to the black-hole register _ are discarded
\* entirely: after set, set_yank or set_delete with register _ the unnamed
\* register, register 0, the last-delete slot and every named register hold
\* what they held before, and get(_) yields nothing.
C17_BlackHoleDiscardsWrites ==
    [][\A content \in RegContents :
           (\/ CallSet(Some("_"), content)
            \/ CallSetYank(Some("_"), content)
            \/ CallSetDelete(Some("_"), content))
               => /\ registers'.unnamed = registers.unnamed
                  /\ registers_get(registers', Some("0"))
                         = registers_get(registers, Some("0"))
                  /\ registers'.last_delete = registers.last_delete
                  /\ registers'.registers = registers.registers
                  /\ registers_get(registers', Some("_")) = None
      ]_vars

\* set_yank to _ on a new bank: register 0 holds the text that was to be
\* discarded, the unnamed register is still empty
C17_BlackHoleYankKept ==
    /\ typed = << "set_yank", "_" >>
    /\ registers_get(registers, Some("0")) = Some(CharContent(<< "a" >>))
    /\ registers.unnamed = CharContent(<< >>)
    /\ registers.registers = {}

-----------------------------------------------------------------------------
(* Editor::run fed with yanks over a word and the motions that take the    *)
(* cursor back                                                             *)

\* keys typed in one run of the yank specification
MaxYankKeys == 5

YankKeys == {"y", "w", "b", "0"}

TypeYank(key) ==
    /\ Running
    /\ Len(typed) < MaxYankKeys
    /\ \E s2 \in {handle_key(State, key, 0)} : Becomes(s2)
    /\ typed' = Append(typed, key)
    /\ UNCHANGED << rope0, cursor0 >>

NextYank == \E key \in YankKeys : TypeYank(key)

SpecYank == Init /\ [][NextYank]_vars

\* C18: yanking is idempotent: the Yank operator applied twice to the same
\* span (y w, the cursor taken back to where it was, y w again) leaves the
\* buffer unchanged both times, and after the second yank the unnamed
\* register and register 0 hold exactly what they held after the first.
C18_YankIdempotent ==
    [][(/\ typed \in {<< "y", "w", "0", "y" >>, << "y", "w", "b", "y" >>}
        /\ cursor = cursor0
        /\ TypeYank("w"))
           => /\ rope = rope0 /\ rope' = rope0
              /\ ~panicked' /\ result' = "Ok"
              /\ registers'.unnamed = registers.unnamed
              /\ registers_get(registers', Some("0"))
                     = registers_get(registers, Some("0"))
              /\ registers_get(registers', Some("0")) = Some(registers'.unnamed)
      ]_vars

\* y w 0 y w at the start of hello world: both registers hold the text
\* "hello " and the buffer is as it was
C18_YankedTwice ==
    /\ typed = << "y", "w", "0", "y", "w" >>
    /\ rope0 = HelloWorld /\ cursor0 = Pos(0, 0)
    /\ rope = rope0 /\ ~modified
    /\ registers.unnamed = CharContent(<< "h", "e", "l", "l", "o", " " >>)
    /\ registers.last_yank = registers.unnamed

-----------------------------------------------------------------------------
(* Editor::run fed with the keys that enter, use and leave the visual      *)
(* modes                                                                   *)

\* keys typed in one run of the visual-mode specification
MaxVisualKeys == 4

VisualModes == {"Visual", "VisualLine"}

VisualKeys == {"v", "V", "h", "j", "k", "l", "x", "Esc"}

TypeVisual(key) ==
    /\ Running
    /\ Len(typed) < MaxVisualKeys
    /\ \E s2 \in {handle_key(State, key, 0)} : Becomes(s2)
    /\ typed' = Append(typed, key)
    /\ UNCHANGED << rope0, cursor0 >>

NextVisual == \E key \in VisualKeys : TypeVisual(key)

SpecVisual == Init /\ [][NextVisual]_vars

\* C21: a selection's anchor never changes after creation: the key that
\* enters Visual or VisualLine mode creates a selection whose anchor and
\* cursor are the cursor position at that moment, and every key handled
\* while the editor stays in that mode changes at most the selection's
\* cursor end, which follows the cursor, and leaves the anchor where it was.
C21_AnchorNeverMoves ==
    [][/\ (mode \notin VisualModes /\ mode' \in VisualModes)
            => /\ cursor' = cursor
               /\ selection' = Some(Selection_new(cursor, cursor, mode'))
       /\ (mode \in VisualModes /\ mode' \in VisualModes)
            => /\ IsSome(selection) /\ IsSome(selection')
               /\ selection' = Some(update_cursor(Unwrap(selection), cursor'))
               /\ Unwrap(selection').anchor = Unwrap(selection).anchor
      ]_vars

\* v typed first, then the cursor moved right and down: the selection's
\* cursor end is elsewhere and the anchor is still where v was typed
C21_AnchorKept ==
    /\ typed = << "v", "l", "j" >>
    /\ mode = "Visual" /\ IsSome(selection)
    /\ Unwrap(selection).anchor = cursor0
    /\ Unwrap(selection).cursor = cursor
    /\ cursor.line = cursor0.line + 1 /\ cursor.col = cursor0.col + 1

\* C34: at every key boundary a selection exists exactly when the mode is
\* Visual or VisualLine, and entering a visual mode creates a selection
\* anchored at the cursor; in the other modes the selection is None
C34_SelectionIffVisual ==
    [][NextVisual
      => /\ IsSome(selection') <=> mode' \in VisualModes
         /\ (mode = "Normal" /\ mode' \in VisualModes)
               => selection' = Some([anchor |-> cursor, cursor |-> cursor,
                                     mode |-> mode'])
      ]_vars

\* V, one line down, Escape: the line-wise selection is gone in Normal mode
\* and the marks < and > hold the two lines it covered
C34_SelectionCleared ==
    /\ typed = << "V", "j", "Esc" >>
    /\ mode = "Normal" /\ selection = None
    /\ cursor.line = cursor0.line + 1
    /\ get_mark(State, "<") = Some(Pos(cursor0.line, 0))
    /\ IsSome(get_mark(State, ">"))

\* C28: after every handled key the cursor is a valid buffer position: its
\* line is below line_count; in Normal mode its column is at most
\* max(line_len - 1, 0), so 0 on an empty line; in Insert mode at most line_len
C28_CursorValid ==
    typed # << >> =>
        /\ cursor.line < line_count(State)
        /\ mode = "Normal" =>
               cursor.col <= Max(line_len(State, cursor.line) - 1, 0)
        /\ mode = "Insert" => cursor.col <= line_len(State, cursor.line)

\* back in Normal mode on an empty line with the cursor in column 1
C28_ColumnPastEmptyLine ==
    /\ typed # << >> /\ mode = "Normal"
    /\ cursor.line < line_count(State)
    /\ line_len(State, cursor.line) = 0
    /\ cursor.col = 1

-----------------------------------------------------------------------------
(* Editor::run fed with an operator, a count and a motion                  *)

\* keys typed in one run of the counted-motion specification
MaxCountKeys == 3

\* six words on one line
SixWords == << "a", " ", "b", " ", "c", " ", "d", " ", "e", " ", "f" >>

CountTexts == {SixWords, Line5, HelloWorld}

CountKeys == {"d", "y", "c", "2", "w", "b", "j"}

InitCount ==
    \E text \in CountTexts : \E at \in NormalCursors(text) :
        Starts([EditorOn(text, TRUE, TRUE, TRUE) EXCEPT !.cursor = at])

TypeCount(key) ==
    /\ Running
    /\ Len(typed) < MaxCountKeys
    /\ \E s2 \in {handle_key(State, key, 0)} :
           /\ s2.count <= MaxCount
           /\ Becomes(s2)
    /\ typed' = Append(typed, key)
    /\ UNCHANGED << rope0, cursor0 >>

NextCount == \E key \in CountKeys : TypeCount(key)

SpecCount == InitCount /\ [][NextCount]_vars

\* the pending operator of s applied to the span from the cursor of s to
\* where n single steps of the motion end
AppliedOverSteps(s, action, n) ==
    LET over(moved) ==
            apply_operator_to_range(moved, s.cursor.line, s.cursor.col,
                                    moved.cursor.line, moved.cursor.col)
    IN  over(execute_action_n([s EXCEPT !.count = 0], action, n))

\* C23: with an operator pending and a count N >= 2, typed before the
\* operator or before the motion, the span the operator is applied to ends
\* exactly N motion steps from the snapshot position: the buffer and the
\* unnamed register after 2 d w, d 2 w, d 2 j and y 2 w are those of the
\* operator applied to the span that ends two steps away, never more.
C23_CountedMotionSpan ==
    [][\A key \in {"w", "j"} :
          (/\ pending_operator # "None" /\ count >= 2
           /\ TypeCount(key))
              => \E expected \in
                     {AppliedOverSteps(State, map_normal_mode_key(key), count)} :
                     /\ rope' = expected.rope
                     /\ registers'.unnamed = expected.registers.unnamed
      ]_vars

\* d 2 w at the start of a b c d e f has removed four words, not two
C23_FourWordsDeleted ==
    /\ typed = << "d", "2", "w" >> /\ rope0 = SixWords /\ cursor0 = Pos(0, 0)
    /\ rope = << "e", " ", "f" >>
    /\ registers.unnamed = CharContent(<< "a", " ", "b", " ", "c", " ", "d", " " >>)

\* the (line, column)-smaller of two positions
SpanStart(p, q) ==
    IF p.line < q.line \/ (p.line = q.line /\ p.col <= q.col) THEN p ELSE q

\* C24: after a Delete or Change operator is applied through a motion, the
\* cursor is at the start of the normalized span, the (line, column)-smaller
\* of the snapshot position and the motion's destination (brought into the
\* line by clamp_cursor); after a backward motion such as d b it is at the
\* motion's destination, not at the pre-motion position.
C24_CursorAtSpanStart ==
    [][\A key \in {"w", "b", "j"} :
          (/\ pending_operator \in {"Delete", "Change"}
           /\ TypeCount(key)
           /\ ~panicked')
              => \E moved \in {execute_action_n(State, map_normal_mode_key(key),
                                                EffCount(State))} :
                     cursor' = clamp_cursor([rope |-> rope', mode |-> mode',
                                             selection |-> selection',
                                             cursor |-> SpanStart(cursor, moved.cursor)]
                                           ).cursor
      ]_vars

\* d b inside the first word of hello world: the three characters before
\* the cursor are gone and the cursor is still at column 3
C24_CursorLeftBehind ==
    /\ typed = << "d", "b" >> /\ rope0 = HelloWorld /\ cursor0 = Pos(0, 3)
    /\ rope = << "l", "o", " ", "w", "o", "r", "l", "d" >>
    /\ cursor = Pos(0, 3)

-----------------------------------------------------------------------------
(* Editor::run fed with the keys that arm the waits of the key dispatcher  *)
(* (operator, text-object modifier, mark, register selector, prefix, count)*)
(* and with Escape                                                         *)

\* keys typed in one run of the pending-state specification
MaxPendingKeys == 3

\* a line with a double-quoted string in it
QuotedText == << "x", "\"", "a", "b", "\"", "y" >>

PendingTexts == {<< >>, QuotedText, Line5}

PendingKeys == {"d", "i", "a", "\"", "m", "'", BACKQUOTE, "g", "q", "@", "r", "2",
                "Esc"}

InitPending ==
    \E text \in PendingTexts : \E at \in NormalCursors(text) :
        Starts([EditorOn(text, TRUE, TRUE, TRUE) EXCEPT !.cursor = at])

TypePending(key) ==
    /\ Running
    /\ Len(typed) < MaxPendingKeys
    /\ \E s2 \in {handle_key(State, key, 0)} :
           /\ s2.count <= MaxCount
           /\ Becomes(s2)
    /\ typed' = Append(typed, key)
    /\ UNCHANGED << rope0, cursor0 >>

NextPending == \E key \in PendingKeys : TypePending(key)

SpecPending == InitPending /\ [][NextPending]_vars

\* C26: pressing Escape in Normal mode unwinds every pending state machine:
\* whatever was pending before (operator, text-object modifier, mark wait,
\* register-selector wait, g/r/q/@ prefix), after the Escape key is handled
\* none of them is pending, the mode is Normal and the buffer is unchanged.
C26_EscapeUnwindsAll ==
    [][(mode = "Normal" /\ TypePending("Esc"))
          => /\ pending_operator' = "None"
             /\ ~IsSome(pending_text_object')
             /\ ~IsSome(waiting_for_mark')
             /\ ~waiting_for_register'
             /\ ~IsSome(pending_key')
             /\ mode' = "Normal"
             /\ rope' = rope
      ]_vars

\* m then Escape: the editor still waits for the name of the mark to set
C26_MarkWaitSurvives ==
    /\ typed = << "m", "Esc" >> /\ mode = "Normal"
    /\ waiting_for_mark = Some("Set")

\* the cursor is strictly between the two quote characters of QuotedText
InsideQuotes ==
    /\ rope = QuotedText /\ rope0 = QuotedText
    /\ cursor.line = 0 /\ cursor.col \in {2, 3}

\* C27: with the cursor inside a double-quoted string, d i " deletes exactly
\* the text between the quotes and d a " deletes it with both quotes, and no
\* operator, text-object or register wait stays pending
C27_QuoteObjectReachable ==
    [][(/\ typed \in {<< "d", "i" >>, << "d", "a" >>}
        /\ InsideQuotes
        /\ TypePending("\""))
      => /\ rope' = IF typed[2] = "i" THEN << "x", "\"", "\"", "y" >>
                                      ELSE << "x", "y" >>
         /\ pending_operator' = "None"
         /\ ~IsSome(pending_text_object')
         /\ ~waiting_for_register'
      ]_vars

\* d i " inside the quoted string: nothing is deleted, the operator and the
\* modifier stay pending and the editor waits for a register name
C27_QuoteArmsRegister ==
    /\ typed = << "d", "i", "\"" >>
    /\ rope0 = QuotedText /\ cursor0.line = 0 /\ cursor0.col \in {2, 3}
    /\ rope = QuotedText
    /\ pending_operator = "Delete"
    /\ pending_text_object = Some("Inner")
    /\ waiting_for_register

\* nothing is awaited: no operator, prefix, text-object, mark or register wait
NothingPending ==
    /\ pending_operator = "None" /\ ~IsSome(pending_key)
    /\ ~IsSome(pending_text_object)
    /\ ~IsSome(waiting_for_mark) /\ ~waiting_for_register

\* C29: the repeat count is zero whenever a non-digit key has been handled
\* and no wait remains, also after the mark and register commands, so a
\* count typed before such a command never reaches the next command
C29_CountResets ==
    (/\ typed # << >>
     /\ typed[Len(typed)] # "2"
     /\ mode = "Normal"
     /\ NothingPending)
    => count = 0

\* how many of the four waits of the key dispatcher are armed
WaitsArmed ==
    (IF IsSome(waiting_for_mark) THEN 1 ELSE 0)
    + (IF waiting_for_register THEN 1 ELSE 0)
    + (IF IsSome(pending_key) THEN 1 ELSE 0)
    + (IF IsSome(pending_text_object) THEN 1 ELSE 0)

\* C35: at every key boundary at most one of the mark wait, the register
\* wait, the pending prefix key and the pending text-object modifier is
\* armed; the key after " becomes the selected register and the key after
\* r the replacement character, whatever that key is
C35_WaitsExclusive == WaitsArmed <= 1

\* " then m: the register wait is still armed, no register is selected and
\* the mark wait is armed as well
C35_RegisterAndMarkWait ==
    /\ typed = << "\"", "m" >>
    /\ waiting_for_register /\ pending_register = None
    /\ waiting_for_mark = Some("Set")

\* 2 m a: the mark is set, nothing is awaited and the count is still 2
C29_CountOutlivesMark ==
    /\ typed = << "2", "m", "a" >>
    /\ mode = "Normal" /\ NothingPending
    /\ get_mark(State, "a") = Some(cursor0)
    /\ count = 2

-----------------------------------------------------------------------------
(* Editor::run fed with mark commands and motions                          *)

\* keys typed in one run of the mark specification
MaxMarkKeys == 5

MarkTexts == {Line5, HelloWorld}
MarkKeys == {"m", "a", "'", BACKQUOTE, "j", "l"}

InitMark ==
    \E text \in MarkTexts : \E at \in NormalCursors(text) :
        Starts([EditorOn(text, TRUE, TRUE, TRUE) EXCEPT !.cursor = at])

TypeMark(key) ==
    /\ Running
    /\ Len(typed) < MaxMarkKeys
    /\ \E s2 \in {handle_key(State, key, 0)} : Becomes(s2)
    /\ typed' = Append(typed, key)
    /\ UNCHANGED << rope0, cursor0 >>

NextMark == \E key \in MarkKeys : TypeMark(key)

SpecMark == InitMark /\ [][NextMark]_vars

\* C30: a jump to a set mark with ' or ` records the cursor position held
\* before the jump in the jump list, and so in the marks ' and `
C30_MarkJumpRecorded ==
    [][(/\ mode = "Normal"
        /\ waiting_for_mark \in {Some("Jump"), Some("JumpExact")}
        /\ IsSome(get_mark(State, "a"))
        /\ TypeMark("a"))
      => /\ \E i \in 1..Len(jump_list') : jump_list'[i] = cursor
         /\ map_get(marks', "'") = Some(cursor)
         /\ map_get(marks', BACKQUOTE) = Some(cursor)
      ]_vars

\* m a, one line down, then ' a: the cursor is back on the marked line and
\* neither the jump list nor the marks ' and ` hold the line it came from
C30_JumpLeftNoTrace ==
    /\ typed = << "m", "a", "j", "'", "a" >>
    /\ rope0 = Line5 /\ cursor0.line < 4
    /\ cursor.line = cursor0.line
    /\ jump_list = << >>
    /\ ~IsSome(get_mark(State, "'"))
    /\ ~IsSome(get_mark(State, BACKQUOTE))

-----------------------------------------------------------------------------
(* The jump list walked back and forth.  No key of keymap.rs maps to       *)
(* Action::JumpBack or Action::JumpForward, so the two arms of             *)
(* execute_action are applied directly, as the dispatcher applies a mapped *)
(* action.                                                                 *)

\* steps taken in one run of the jump-history specification
MaxHistorySteps == 6

HistoryKeys == {"G", "g", "j"}

InitHistory ==
    \E at \in NormalCursors(Line5) :
        Starts([EditorOn(Line5, TRUE, TRUE, TRUE) EXCEPT !.cursor = at])

TypeHistory(key) ==
    /\ Running
    /\ Len(typed) < MaxHistorySteps
    /\ \E s2 \in {handle_key(State, key, 0)} : Becomes(s2)
    /\ typed' = Append(typed, key)
    /\ UNCHANGED << rope0, cursor0 >>

CallJumpBack ==
    /\ Running
    /\ Len(typed) < MaxHistorySteps
    /\ ~IsSome(pending_key)
    /\ \E s2 \in {execute_action(State, Act("JumpBack"))} : Becomes(s2)
    /\ typed' = Append(typed, "JumpBack")
    /\ UNCHANGED << rope0, cursor0 >>

CallJumpForward ==
    /\ Running
    /\ Len(typed) < MaxHistorySteps
    /\ ~IsSome(pending_key)
    /\ \E s2 \in {execute_action(State, Act("JumpForward"))} : Becomes(s2)
    /\ typed' = Append(typed, "JumpForward")
    /\ UNCHANGED << rope0, cursor0 >>

NextHistory ==
    \/ \E key \in HistoryKeys : TypeHistory(key)
    \/ CallJumpBack
    \/ CallJumpForward

SpecHistory == InitHistory /\ [][NextHistory]_vars

\* the steps of SpecHistory that call save_jump_position: G, and the second
\* g of g g
SavesJump ==
    \/ ~IsSome(pending_key) /\ TypeHistory("G")
    \/ pending_key = Some("g") /\ TypeHistory("g")

\* C31: a jump recorded while jump_index points inside the jump list
\* discards the entries after jump_index: after every save_jump_position
\* the entries up to jump_index are kept, at most one entry follows them,
\* and jump_index is the index of the last entry
C31_ForwardHistoryTruncated ==
    [][SavesJump
      => LET kept == Min(Len(jump_list), jump_index + 1)
         IN  /\ jump_index' = Len(jump_list') - 1
             /\ Len(jump_list') \in {kept, kept + 1}
             /\ \A i \in 1..kept : jump_list'[i] = jump_list[i]
      ]_vars

\* G, back to the start, one line down, G again: the entry of the last line
\* is gone and the list ends with the position the second G left from
C31_ForwardEntryDiscarded ==
    /\ typed = << "G", "JumpBack", "j", "G" >>
    /\ cursor0.line < 3
    /\ Len(jump_list) = 2
    /\ jump_list[1] = cursor0
    /\ jump_list[2].line = cursor0.line + 1
    /\ jump_index = 1
    /\ cursor = Pos(4, 0)

-----------------------------------------------------------------------------
(* Editor::run fed with an operator and then a key that is not a motion    *)

\* keys typed in one run of the operator-cancelling specification
MaxCancelKeys == 4

CancelTexts == {<< >>, << "a", " ", "b" >>, Line5}
CancelKeys == {"d", "y", "c", "x", "p", ":", "v", ".", "i", "a", "w", "Esc"}

InitCancel ==
    \E text \in CancelTexts : \E at \in NormalCursors(text) :
        Starts([EditorOn(text, TRUE, TRUE, TRUE) EXCEPT !.cursor = at])

TypeCancel(key) ==
    /\ Running
    /\ Len(typed) < MaxCancelKeys
    /\ \E s2 \in {handle_key(State, key, 0)} : Becomes(s2)
    /\ typed' = Append(typed, key)
    /\ UNCHANGED << rope0, cursor0 >>

NextCancel == \E key \in CancelKeys : TypeCancel(key)

SpecCancel == InitCancel /\ [][NextCancel]_vars

\* the key that arms an operator
OperatorKey(op) ==
    CASE op = "Delete" -> "d" [] op = "Yank" -> "y" [] op = "Change" -> "c"

\* an operator is pending and nothing else is
OperatorPending ==
    /\ mode = "Normal"
    /\ pending_operator \in {"Delete", "Yank", "Change"}
    /\ ~IsSome(pending_text_object)

\* the operator is cancelled and nothing else has changed
CancelledWithNoEffect ==
    /\ pending_operator' = "None"
    /\ rope' = rope
    /\ registers' = registers
    /\ cursor' = cursor
    /\ mode' = mode

C36_OperatorOnlyInNormal ==
    /\ IsSome(pending_text_object) => pending_operator # "None"
    /\ pending_operator # "None" => mode = "Normal"

\* c c, Escape, then the dot: the dot has armed Change again, in Normal mode
C36_DotArmsChange ==
    /\ typed = << "c", "c", "Esc", "." >>
    /\ pending_operator = "Change" /\ mode = "Normal"
    /\ ~IsSome(pending_text_object)

-----------------------------------------------------------------------------
(* parse_command (src/src/command.rs) applied to the command buffer        *)

\* longest command text parsed
MaxParseLen == 4

ParseChars == {":", " ", "s", "/", "f", "1", "%", "q"}

ParseInputs == UNION {[1..n -> ParseChars] : n \in 0..MaxParseLen}

\* the editor in Command mode with the text in its command buffer
InitParse ==
    \E input \in ParseInputs :
        Starts([EditorOn(<< >>, FALSE, FALSE, TRUE)
                   EXCEPT !.mode = "Command", !.command_buffer = input])

\* parse_command reads the command buffer; what it returned is kept in
\* typed: whether it is Ok, and the kind of Command or the error text
CallParse ==
    /\ typed = << >>
    /\ \E parsed \in {parse_command(command_buffer)} :
           typed' = << "parse_command", Answer(parsed.ok),
                       IF parsed.ok THEN parsed.cmd.kind ELSE parsed.err >>
    /\ Becomes(State)
    /\ UNCHANGED << rope0, cursor0 >>

NextParse == CallParse

SpecParse == InitParse /\ [][NextParse]_vars

\* the command text left after trimming and stripping a leading ':'
StrippedCommand(input) ==
    LET trimmed == trim(input)
    IN  IF starts_with(trimmed, << ":" >>) THEN Slice(trimmed, 1, Len(trimmed))
        ELSE trimmed

\* a substitute, after its range, with no '/' after the pattern: fewer than
\* the two fields pattern and replacement
ShortSubstitute(text) ==
    LET command == parse_range(text)[2]
    IN  /\ starts_with(command, << "s", "/" >>)
        /\ ~contains_char(Slice(command, 2, Len(command)), "/")

\* C22: parse_command returns a parse error exactly when the command text
\* left after trimming and stripping a leading ':' is empty (so both "" and
\* ":" are errors) or is a substitute with fewer than the required
\* '/'-delimited fields (s/foo); every other input returns Ok with a Command.
C22_ParseErrorsExact ==
    [][CallParse
          => (typed'[2] = "false"
                 <=> \/ StrippedCommand(command_buffer) = << >>
                     \/ ShortSubstitute(StrippedCommand(command_buffer)))
      ]_vars

\* the text ":" parsed: Ok with an Unknown command, no error
C22_ColonIsUnknown ==
    /\ command_buffer = << ":" >>
    /\ typed = << "parse_command", "true", "Unknown" >>

-----------------------------------------------------------------------------
(* Buffer loaded from a file and saved                                     *)

\* longest file content loaded
MaxFile == 4
\* saves in one run
MaxSaves == 2

\* Buffer::from_file on a file that holds content: the buffer of s is
\* replaced by the one read from the file
from_file(s, content) ==
    [s EXCEPT !.rope = normalized(content), !.file_path = TRUE,
              !.backup_path = TRUE, !.modified = FALSE,
              !.line_ending = detect(content), !.marks = {},
              !.file = content]

FileChars == {"a", "\r", "\n"}

FileContents == UNION {[1..n -> FileChars] : n \in 0..MaxFile}

InitFile ==
    \E content \in FileContents : \E writable \in BOOLEAN :
        Starts(from_file(EditorOn(<< >>, FALSE, writable, TRUE), content))

CallSave ==
    /\ Len(typed) < MaxSaves
    /\ \E s2 \in {save(State)} : Becomes(s2)
    /\ typed' = Append(typed, "save")
    /\ UNCHANGED << rope0, cursor0 >>

NextFile == CallSave

SpecFile == InitFile /\ [][NextFile]_vars

\* content whose line terminators are all CRLF, all LF or all CR
AllCRLF(content) ==
    \A i \in 1..Len(content) :
        /\ content[i] = "\r" => (i < Len(content) /\ content[i + 1] = "\n")
        /\ content[i] = "\n" => (i > 1 /\ content[i - 1] = "\r")
AllLF(content) == \A i \in 1..Len(content) : content[i] # "\r"
AllCR(content) == \A i \in 1..Len(content) : content[i] # "\n"

\* C19: line-ending round trip: for file content in which every line
\* terminator is CRLF, or every one LF, or every one CR, loading the file
\* (detect the line ending, normalise every terminator to a line feed) and
\* saving it with no edit writes back exactly the original characters.
C19_LineEndingRoundTrip ==
    [][(/\ typed = << >> /\ fs_ok
        /\ (AllCRLF(file) \/ AllLF(file) \/ AllCR(file))
        /\ CallSave)
           => /\ file' = file
              /\ result' = "Ok" /\ ~modified' /\ rope' = rope
              /\ AllLF(rope)
      ]_vars

\* a CRLF file of two lines loaded as line feeds and saved as it was
C19_CrlfSaved ==
    /\ typed = << "save" >> /\ result = "Ok"
    /\ file = << "a", "\r", "\n", "a" >>
    /\ rope = << "a", "\n", "a" >>
    /\ line_ending = "CRLF"

-----------------------------------------------------------------------------
(* A buffer read from a file, edited and saved by direct calls             *)

\* calls made in one run of the backup specification
MaxBackupCalls == 4

BackupContents == {<< >>, << "a" >>, << "a", "\r", "\n", "b" >>}
BackupCoords == 0..1
BackupChars == {"a", "b"}

InitBackup ==
    \E content \in BackupContents : \E writable \in BOOLEAN :
        Starts(from_file(EditorOn(<< >>, FALSE, writable, TRUE), content))

EditInsertChar(line, col, ch) ==
    /\ ~panicked
    /\ Len(typed) < MaxBackupCalls
    /\ \E s2 \in {insert_char(State, line, col, ch)} : Becomes(s2)
    /\ typed' = Append(typed, "insert_char")
    /\ UNCHANGED << rope0, cursor0 >>

EditDeleteChar(line, col) ==
    /\ ~panicked
    /\ Len(typed) < MaxBackupCalls
    /\ \E s2 \in {delete_char(State, line, col)} : Becomes(s2)
    /\ typed' = Append(typed, "delete_char")
    /\ UNCHANGED << rope0, cursor0 >>

EditSave ==
    /\ ~panicked
    /\ Len(typed) < MaxBackupCalls
    /\ \E s2 \in {save([State EXCEPT !.result = "Ok"])} : Becomes(s2)
    /\ typed' = Append(typed, "save")
    /\ UNCHANGED << rope0, cursor0 >>

NextBackup ==
    \/ \E line \in BackupCoords, col \in BackupCoords, ch \in BackupChars :
           EditInsertChar(line, col, ch)
    \/ \E line \in BackupCoords, col \in BackupCoords : EditDeleteChar(line, col)
    \/ EditSave

SpecBackup == InitBackup /\ [][NextBackup]_vars

\* a call that changes the text
Mutation ==
    /\ \/ \E line \in BackupCoords, col \in BackupCoords, ch \in BackupChars :
              EditInsertChar(line, col, ch)
       \/ \E line \in BackupCoords, col \in BackupCoords : EditDeleteChar(line, col)
    /\ rope' # rope

-----------------------------------------------------------------------------
(* Selection (src/src/selection.rs) under direct calls of its operations   *)

\* largest line and column of a selection end or of a queried position
MaxSelLine == 3
MaxSelCol == 6

SelPositions == {Pos(l, c) : l \in 0..MaxSelLine, c \in 0..MaxSelCol}

SelModes == {"Visual", "VisualLine", "VisualBlock"}

InitSel == Starts(EditorOn(<< >>, FALSE, FALSE, TRUE))

CallNew(anchor, at, m) ==
    /\ selection = None
    /\ Becomes([State EXCEPT !.selection = Some(Selection_new(anchor, at, m))])
    /\ typed' = << "new" >>
    /\ UNCHANGED << rope0, cursor0 >>

CallUpdateCursor(at) ==
    /\ IsSome(selection)
    /\ Becomes([State EXCEPT !.selection = Some(update_cursor(Unwrap(@), at))])
    /\ typed' = << "update_cursor" >>
    /\ UNCHANGED << rope0, cursor0 >>

\* contains reads the selection; the call and the value it returned are
\* kept in typed
CallContains(line, col) ==
    /\ IsSome(selection)
    /\ typed' = << "contains", ToString(line), ToString(col),
                   Answer(Selection_contains(Unwrap(selection), line, col)) >>
    /\ typed' # typed
    /\ Becomes(State)
    /\ UNCHANGED << rope0, cursor0 >>

NextSel ==
    \/ \E anchor \in SelPositions, at \in SelPositions, m \in SelModes :
           CallNew(anchor, at, m)
    \/ \E at \in SelPositions : CallUpdateCursor(at)
    \/ \E at \in SelPositions : CallContains(at.line, at.col)

SpecSel == InitSel /\ [][NextSel]_vars

\* p comes no later than q in (line, column) order
PosLeq(p, q) == p.line < q.line \/ (p.line = q.line /\ p.col <= q.col)

\* C20: for a character-wise (Visual) selection the normalized range (s, e)
\* is the anchor and the cursor in (line, column) order, whichever comes
\* first, and contains(l, c) is true exactly when (l, c) lies between s and
\* e inclusive in that order: every column from s.col on the first line,
\* every column of the middle lines, every column up to e.col on the last.
C20_ContainsIsBetween ==
    [][\A p \in SelPositions :
          (/\ IsSome(selection)
           /\ Unwrap(selection).mode = "Visual"
           /\ typed'[1] = "contains"
           /\ typed'[2] = ToString(p.line) /\ typed'[3] = ToString(p.col)
           /\ CallContains(p.line, p.col))
              => LET sel == Unwrap(selection)
                     r == Selection_range(sel)
                 IN  /\ r.start \in {sel.anchor, sel.cursor}
                     /\ r.end \in {sel.anchor, sel.cursor}
                     /\ PosLeq(r.start, sel.anchor) /\ PosLeq(r.start, sel.cursor)
                     /\ PosLeq(sel.anchor, r.end) /\ PosLeq(sel.cursor, r.end)
                     /\ typed'[4] = Answer(PosLeq(r.start, p) /\ PosLeq(p, r.end))
      ]_vars

\* the selection from (1,2) to (3,5), made backwards, asked about (2,0),
\* which it contains
C20_MiddleLineContained ==
    /\ selection = Some(Selection_new(Pos(3, 5), Pos(1, 2), "Visual"))
    /\ typed = << "contains", "2", "0", "true" >>

-----------------------------------------------------------------------------
(* Buffer under direct calls of its editing operations                     *)
(* typed holds the name of the last operation called.                     *)

BufChars == {"a", WIDE}

BufTexts == {<< >>, << "a" >>, << "a", "\n", "b" >>}

InitBuf ==
    \E text \in BufTexts : \E has_file \in BOOLEAN :
        Starts(EditorOn(text, has_file, TRUE, TRUE))

CallInsertChar(line, col, ch) ==
    /\ ~panicked
    /\ Len(rope) < MaxRope
    /\ Becomes(insert_char(State, line, col, ch))
    /\ typed' = << "insert_char" >>
    /\ UNCHANGED << rope0, cursor0 >>

CallInsertNewline(line, col) ==
    /\ ~panicked
    /\ Len(rope) < MaxRope
    /\ Becomes(insert_newline(State, line, col))
    /\ typed' = << "insert_newline" >>
    /\ UNCHANGED << rope0, cursor0 >>

CallDeleteChar(line, col) ==
    /\ ~panicked
    /\ Becomes(delete_char(State, line, col))
    /\ typed' = << "delete_char" >>
    /\ UNCHANGED << rope0, cursor0 >>

CallDeleteRange(start_line, start_col, end_line, end_col) ==
    /\ ~panicked
    /\ Becomes(delete_range(State, start_line, start_col, end_line, end_col))
    /\ typed' = << "delete_range" >>
    /\ UNCHANGED << rope0, cursor0 >>

NextBuf ==
    \/ \E line \in 0..MaxCoord, col \in 0..MaxCoord, ch \in BufChars :
           CallInsertChar(line, col, ch)
    \/ \E line \in 0..MaxCoord, col \in 0..MaxCoord : CallInsertNewline(line, col)
    \/ \E line \in 0..MaxCoord, col \in 0..MaxCoord : CallDeleteChar(line, col)
    \/ \E start_line \in 0..MaxCoord, start_col \in 0..MaxCoord,
          end_line \in 0..MaxCoord, end_col \in (0..MaxCoord) \cup {USIZE_MAX} :
           CallDeleteRange(start_line, start_col, end_line, end_col)

SpecBuf == InitBuf /\ [][NextBuf]_vars

\* C10: after any sequence of insert_char, insert_newline, delete_char and
\* delete_range calls, line_count() >= 1 and get_line(0) is defined.
C10_AtLeastOneLine ==
    /\ line_count(State) >= 1
    /\ IsSome(get_line(State, 0))

\* a delete_range has emptied a buffer that held text
C10_EmptiedBuffer ==
    /\ rope0 # << >> /\ rope = << >> /\ modified
    /\ line_count(State) = 1 /\ get_line(State, 0) = Some(<< >>)

\* the end of a line, as a position in the rope
LineEnd(s, line) == line_to_char(s.rope, line) + Len(Unwrap(get_line(s, line)))

\* C11: Buffer calls with out-of-range coordinates are no-ops and never fail:
\* insert_char and insert_newline with line >= line_count, delete_char with
\* line >= line_count or col >= line_len(line), and delete_range with a start
\* or end line >= line_count leave text and modified flag as they were; an
\* insert with col > line_len inserts at the end of the line.
C11_OutOfRangeCallsAreNoOps ==
    [][LET Untouched == rope' = rope /\ modified' = modified /\ ~panicked'
       IN  /\ \A line \in 0..MaxCoord, col \in 0..MaxCoord, ch \in BufChars :
                  CallInsertChar(line, col, ch) =>
                      IF line >= line_count(State) THEN Untouched
                      ELSE col > line_len(State, line) =>
                               /\ ~panicked'
                               /\ rope' = rope_insert(rope, LineEnd(State, line), ch)
           /\ \A line \in 0..MaxCoord, col \in 0..MaxCoord :
                  CallInsertNewline(line, col) =>
                      IF line >= line_count(State) THEN Untouched
                      ELSE col > line_len(State, line) =>
                               /\ ~panicked'
                               /\ rope' = rope_insert(rope, LineEnd(State, line), "\n")
           /\ \A line \in 0..MaxCoord, col \in 0..MaxCoord :
                  (CallDeleteChar(line, col)
                   /\ (line >= line_count(State) \/ col >= line_len(State, line)))
                      => Untouched
           /\ \A start_line \in 0..MaxCoord, start_col \in 0..MaxCoord,
                 end_line \in 0..MaxCoord, end_col \in (0..MaxCoord) \cup {USIZE_MAX} :
                  (CallDeleteRange(start_line, start_col, end_line, end_col)
                   /\ (start_line >= line_count(State) \/ end_line >= line_count(State)))
                      => Untouched
      ]_vars

\* a delete_range on the one-line buffer "a" has ended in a panic: only a
\* start line beyond the line count does that
C11_DeleteRangePanicked ==
    /\ typed = << "delete_range" >> /\ rope = << "a" >> /\ rope0 = << "a" >>
    /\ ~modified /\ panicked

====
